---- MODULE Spec2Model ----
(***************************************************************************)
(* kube-inspect: the resource-set reconciler (kube.DiffResources and       *)
(* helm.resourcesDiff), its identity normalisation, and the manifest       *)
(* decoder (kube.ResourcesFromManifest).                                   *)
(*                                                                         *)
(* Strings are Go strings: names, apiVersions and map keys are built,      *)
(* cut and concatenated character by character as the code does it.        *)
(* A document is the content of one *unstructured.Unstructured; the two    *)
(* input slices hold the documents themselves (the pointed-to objects,     *)
(* which the reconciler changes in place), and the result buckets hold     *)
(* references (side, index) to them, as the Go slices hold pointers.       *)
(***************************************************************************)
EXTENDS Naturals, Sequences, FiniteSets, TLC

VARIABLES
    universe,   \* which set of documents the caller draws the slices from
    a,          \* documents of input slice A (memory the pointers of A refer to)
    b,          \* documents of input slice B
    inA,        \* A as it was handed to the call (snapshot taken at the call)
    inB,        \* B as it was handed to the call
    pc,         \* "input" | "done"
    callee,     \* "" | "DiffResources" | "resourcesDiff"
    ret,        \* the returned *ResourcesDiff ([isNil |-> TRUE] stands for nil)
    err,        \* the returned error message, "" for a nil error
    manifest,   \* ResourcesFromManifest: the YAML documents of the buffer
    pos,        \* ResourcesFromManifest: documents consumed by the decoder
    res,        \* ResourcesFromManifest: the slice res built so far
    mpc,        \* ResourcesFromManifest: "input" | "loop" | "done"
    mret,       \* ResourcesFromManifest: returned slice ([isNil |-> TRUE] for nil)
    merr,       \* ResourcesFromManifest: returned error, "" for nil
    treeA,      \* diff.New: the YAML tree of argument a
    treeB,      \* diff.New: the YAML tree of argument b
    copt,       \* diff.New: what the caller asks for with its options
    cdiff,      \* diff.New: the returned Diff ([isNil |-> TRUE] before the call)
    ctext,      \* Diff.String: the returned lines
    cpc,        \* diff.New / Diff.String: "input" | "compared" | "formatted"
    ColorSetting,     \* package bunt: the process-wide color setting
    TrueColorSetting, \* package bunt: the process-wide true color setting
    rendered,   \* Chart.Resources: the resources of the rendered manifest
    filters,    \* Chart.Resources: the filters the caller supplies
    fret,       \* Chart.Resources: the returned slice ([isNil |-> TRUE] for nil)
    ferr,       \* Chart.Resources: the returned error, "" for nil
    fpc,        \* Chart.Resources: "input" | "done"
    url,        \* ChartLocationFromURL: the URL supplied
    loc,        \* ChartLocationFromURL: the returned *ChartLocation ([isNil |-> TRUE] for nil)
    lerr,       \* ChartLocationFromURL: the returned error, "" for nil
    oci,        \* what OCIRegistry, OCIRegistryAndNamespace, OCIRepository returned
    lpc,        \* "input" | "located" | "read"
    vsource,    \* chart versions: "oci" | "helm", the repository queried
    vtags,      \* chart versions: the tags (index entries) of the repository
    pageSize,   \* chart versions: tags per page of repo.Tags
    vopts,      \* chart versions: the options of the caller
    opts,       \* chart versions: the ChartVersionsOptions in use
    vpos,       \* chart versions: tags consumed by the loop
    matched,    \* chart versions: the counter matched
    seenTags,   \* chart versions: the slice seenTags
    collected,  \* chart versions: the messages written to opts.errorCollector
    out,        \* chart versions: the slice out
    vret,       \* chart versions: the returned slice ([isNil |-> TRUE] for nil)
    verr,       \* chart versions: the returned error, "" for nil
    vpc,        \* chart versions: "input" | "loop" | "done"
    hc,         \* Chart: the embedded *helmchart.Chart ([isNil |-> TRUE] for nil)
    cRendered,  \* Chart: the field rendered
    cManifest,  \* Chart: the field manifest ([isNil |-> TRUE] for nil)
    installs,   \* Chart: the calls of installer.Run made so far
    installer,  \* Chart: the installer of the latest render ([isNil |-> TRUE]: none)
    ncalls,     \* Chart: the calls of Chart.Resources made so far
    rret,       \* Chart: the slice the latest call returned ([isNil |-> TRUE] for nil)
    rerr,       \* Chart: the error the latest call returned, "" for nil
    rpc,        \* Chart: "ready" | "returned" | "panic"
    oc,         \* OptionalResources: the chart, "nil" | "noschema" | "schema"
    schema,     \* OptionalResources: the properties of the values schema, by their paths
    ores,       \* OptionalResources: the returned slice ([isNil |-> TRUE] for nil)
    oerr,       \* OptionalResources: the returned error, "" for nil
    opc,        \* OptionalResources: "input" | "done" | "panic"
    ctxs,       \* package debug: the contexts made so far; 1 is the caller's own
    arrays,     \* package debug: the backing arrays of the trace stacks
    written,    \* package debug: the lines written to the debug writers, with their calls
    nmsgs,      \* package debug: the calls of Printf and Println made so far
    tret,       \* package debug: the context the latest PushTrace or PopTrace returned
    tpc,        \* package debug: "idle" | "run" | "panic"
    iopts,      \* Inspect: the options of the caller (chart version, registry client)
    tempDirs,   \* Inspect: the temporary untar directories that exist
    made,       \* Inspect: the temporary directories os.MkdirTemp has made so far
    errors,     \* Inspect: the errors the calls have returned, "" for nil
    ichart,     \* Inspect: the *Chart the latest call returned ([isNil |-> TRUE] for nil)
    ipc         \* Inspect: "idle" | "run"

diffVars == <<universe, a, b, inA, inB, pc, callee, ret, err>>
manifestVars == <<manifest, pos, res, mpc, mret, merr>>
compareVars == <<treeA, treeB, copt, cdiff, ctext, cpc, ColorSetting, TrueColorSetting>>
resourcesVars == <<rendered, filters, fret, ferr, fpc>>
locationVars == <<url, loc, lerr, oci, lpc>>
versionsVars ==
    <<vsource, vtags, pageSize, vopts, opts, vpos, matched, seenTags, collected, out,
      vret, verr, vpc>>
chartVars == <<hc, cRendered, cManifest, installs, installer, ncalls, rret, rerr, rpc>>
optionalVars == <<oc, schema, ores, oerr, opc>>
traceVars == <<ctxs, arrays, written, nmsgs, tret, tpc>>
inspectVars == <<iopts, tempDirs, made, errors, ichart, ipc>>
vars ==
    <<diffVars, manifestVars, compareVars, resourcesVars, locationVars, versionsVars, chartVars, optionalVars, traceVars, inspectVars>>
\* The variables the operations of one component leave alone.
notDiffVars ==
    <<manifestVars, compareVars, resourcesVars, locationVars, versionsVars, chartVars, optionalVars, traceVars, inspectVars>>
notManifestVars ==
    <<diffVars, compareVars, resourcesVars, locationVars, versionsVars, chartVars, optionalVars, traceVars, inspectVars>>
notCompareVars ==
    <<diffVars, manifestVars, resourcesVars, locationVars, versionsVars, chartVars, optionalVars, traceVars, inspectVars>>
notResourcesVars ==
    <<diffVars, manifestVars, compareVars, locationVars, versionsVars, chartVars, optionalVars, traceVars, inspectVars>>
notLocationVars ==
    <<diffVars, manifestVars, compareVars, resourcesVars, versionsVars, chartVars, optionalVars, traceVars, inspectVars>>
notVersionsVars ==
    <<diffVars, manifestVars, compareVars, resourcesVars, locationVars, chartVars, optionalVars, traceVars, inspectVars>>
notChartVars ==
    <<diffVars, manifestVars, compareVars, resourcesVars, locationVars, versionsVars, optionalVars, traceVars, inspectVars>>
notOptionalVars ==
    <<diffVars, manifestVars, compareVars, resourcesVars, locationVars, versionsVars, chartVars, traceVars, inspectVars>>
notTraceVars ==
    <<diffVars, manifestVars, compareVars, resourcesVars, locationVars, versionsVars, chartVars, optionalVars, inspectVars>>
notInspectVars ==
    <<diffVars, manifestVars, compareVars, resourcesVars, locationVars, versionsVars, chartVars, optionalVars, traceVars>>

(***************************************************************************)
(* Bounds of the model.                                                    *)
(***************************************************************************)
\* Most documents in one input slice of the reconciler.
MaxLen == 2
\* The most documents of one slice when the documents are DuplicateDocs.
MaxDuplicates == 3
\* Most YAML documents in one manifest buffer.
MaxManifest == 3
\* Most entries of one list of a compared tree.
MaxItems == 2
\* Most filters in one call of Chart.Resources.
MaxFilters == 2
\* Most path segments of a chart URL after its scheme.
MaxSegments == 4
\* Most tags (index entries) of a chart repository.
MaxTags == 3
\* Most tags in one page of repo.Tags.
MaxPageSize == 2
\* The largest limit a caller sets with ChartVersionsWithLimit.
MaxLimit == 2
\* Most calls of Chart.Resources on one chart.
MaxCalls == 3
\* Most properties of one values schema, at all depths together.
MaxProperties == 2
\* Most contexts of one run of the debug traces, the caller's own included.
MaxContexts == 4
\* Most traces on the stack of the caller's own context.
MaxDepth == 3
\* Most calls of Printf and Println in one run.
MaxMessages == 1
\* Most calls of Inspect with an OCI URL in one run.
MaxInspections == 3

(***************************************************************************)
(* Go string helpers (package strings).                                    *)
(***************************************************************************)
\* strings.HasPrefix(s, prefix)
HasPrefix(s, prefix) ==
    /\ Len(s) >= Len(prefix)
    /\ SubSeq(s, 1, Len(prefix)) = prefix

\* strings.TrimPrefix(s, prefix): s without the leading prefix, else s
TrimPrefix(s, prefix) ==
    IF HasPrefix(s, prefix) THEN SubSeq(s, Len(prefix) + 1, Len(s)) ELSE s

\* A cut of the first occurrence of prefix wherever it stands in s (what
\* strings.Replace(s, prefix, "", 1) would do), in the place of CutPrefix.
CutFirstOccurrence(s, prefix) ==
    LET at == { k \in 0..Len(s) :
                  /\ k + Len(prefix) <= Len(s)
                  /\ SubSeq(s, k + 1, k + Len(prefix)) = prefix }
    IN IF at = {} THEN [after |-> s, ok |-> FALSE]
       ELSE LET k == CHOOSE x \in at : \A y \in at : x <= y
            IN [after |-> SubSeq(s, 1, k) \o SubSeq(s, k + Len(prefix) + 1, Len(s)),
                ok |-> TRUE]

\* strings.CutPrefix(s, prefix): (after, found)
CutPrefix(s, prefix) ==
    IF HasPrefix(s, prefix)
    THEN [after |-> SubSeq(s, Len(prefix) + 1, Len(s)), ok |-> TRUE]
    ELSE [after |-> s, ok |-> FALSE]

\* The release-name prefix tacked on while templating the Helm release.
\* strings.HasSuffix(s, suffix)
HasSuffix(s, suffix) ==
    /\ Len(s) >= Len(suffix)
    /\ SubSeq(s, Len(s) - Len(suffix) + 1, Len(s)) = suffix

\* strings.TrimSuffix(s, suffix)
TrimSuffix(s, suffix) ==
    IF HasSuffix(s, suffix) THEN SubSeq(s, 1, Len(s) - Len(suffix)) ELSE s

\* strings.Split(s, sep) for a separator of one character: the substrings
\* between the separators, one more than there are separators.
RECURSIVE SplitFrom(_, _, _, _)
SplitFrom(s, sep, start, i) ==
    IF i > Len(s) THEN << SubSeq(s, start, Len(s)) >>
    ELSE IF SubSeq(s, i, i) = sep
    THEN << SubSeq(s, start, i - 1) >> \o SplitFrom(s, sep, i + 1, i + 1)
    ELSE SplitFrom(s, sep, start, i + 1)

Split(s, sep) == SplitFrom(s, sep, 1, 1)

\* strings.Join(elems, sep)
RECURSIVE StringsJoin(_, _)
StringsJoin(elems, sep) ==
    IF elems = << >> THEN ""
    ELSE IF Len(elems) = 1 THEN elems[1]
    ELSE elems[1] \o sep \o StringsJoin(Tail(elems), sep)

NamePrefix == "kube-inspect-"

(***************************************************************************)
(* Documents.                                                              *)
(***************************************************************************)
\* One resource document: apiVersion split into group and version, kind,
\* metadata.name, metadata.namespace, the rest of the tree (content), and
\* whether the tree can be marshalled and loaded by the comparator.
Doc(g, v, k, n, ns, c, bad) ==
    [group |-> g, version |-> v, kind |-> k, name |-> n,
     namespace |-> ns, content |-> c, malformed |-> bad]

\* Documents of one API group/version: a Deployment named foo in two
\* versions of its content, the same under the release-prefixed name, under
\* a name that only contains the prefix, and one the comparator cannot
\* load; and a Service (core group, empty group string) of the same name.
CoreDocs ==
    { Doc("apps", "v1", "Deployment", "foo", "default", "c0", FALSE),
      Doc("apps", "v1", "Deployment", "foo", "default", "c1", FALSE),
      Doc("apps", "v1", "Deployment", "kube-inspect-foo", "default", "c0", FALSE),
      Doc("apps", "v1", "Deployment", "cert-kube-inspect-foo", "default", "c0", FALSE),
      Doc("apps", "v1", "Deployment", "foo", "default", "c0", TRUE),
      Doc("", "v1", "Service", "foo", "default", "c0", FALSE) }

\* The same, and a Deployment foo of another API group and version and the
\* Service foo in another namespace.
Docs ==
    CoreDocs \cup
    { Doc("extensions", "v1beta1", "Deployment", "foo", "default", "c0", FALSE),
      Doc("", "v1", "Service", "foo", "other", "c0", FALSE) }

\* The set of documents named by the variable universe.
\* Documents of one kind and name: two contents of one identity, and the
\* same kind and name in another group and version.
DuplicateDocs ==
    { Doc("apps", "v1", "Deployment", "foo", "", "c0", FALSE),
      Doc("apps", "v1", "Deployment", "kube-inspect-foo", "", "c1", FALSE),
      Doc("extensions", "v1beta1", "Deployment", "foo", "", "c0", FALSE) }

DocsOf(u) ==
    IF u = "Docs" THEN Docs
    ELSE IF u = "CoreDocs" THEN CoreDocs
    ELSE IF u = "DuplicateDocs" THEN DuplicateDocs
    ELSE {}

\* The most documents the caller puts in one slice.
MaxLenOf(u) == IF u = "DuplicateDocs" THEN MaxDuplicates ELSE MaxLen

\* A pointer to a document of one of the two slices.
Ref(side, i) == [side |-> side, idx |-> i]

\* nil *ResourcesDiff / nil slice
NilValue == [isNil |-> TRUE]

(***************************************************************************)
(* Go maps.  A map is a function on its key set; ranging over a map visits *)
(* its keys in an order the runtime chooses.                               *)
(***************************************************************************)
EmptyMap == << >>

\* m[k] = v
MapPut(m, k, v) == (k :> v) @@ m

\* The (kind key, name key) entries of a map of maps.
Entries(m) ==
    UNION { { [kind |-> k, name |-> n] : n \in DOMAIN m[k] } : k \in DOMAIN m }

\* Every order `for k, names := range m { for n, r := range names {...} }` (or
\* lo.Values(names)) can visit the entries in: any order of the outer keys,
\* and under each outer key any order of the inner keys.
IterOrders(m) ==
    LET E == Entries(m)
        N == Cardinality(E)
    IN { s \in [1..N -> E] :
            /\ \A i, j \in 1..N : i # j => s[i] # s[j]
            /\ \A i, j, k \in 1..N :
                  (i < j /\ j < k /\ s[i].kind = s[k].kind) => s[j].kind = s[i].kind }

(***************************************************************************)
(* The tree comparator: diff.New (kube) and dyffReport (helm), both thin   *)
(* wrappers of dyff.CompareInputFiles over the marshalled documents.       *)
(***************************************************************************)
\* apiVersion as the document carries it
APIVersion(r) ==
    IF r.group = "" THEN r.version ELSE r.group \o "/" \o r.version

\* The scalar leaves of a document, in the comparator's traversal order.
Leaves(r) ==
    << [path |-> "apiVersion",         value |-> APIVersion(r)],
       [path |-> "kind",               value |-> r.kind],
       [path |-> "metadata.name",      value |-> r.name],
       [path |-> "metadata.namespace", value |-> r.namespace],
       [path |-> "spec",               value |-> r.content] >>

\* A comparison that reports every leaf, equal or not, in the place of
\* CompareInputFiles.
CompareInputFilesAllLeaves(x, y) ==
    [ i \in DOMAIN Leaves(x) |->
        [path |-> Leaves(x)[i].path,
         from |-> Leaves(x)[i].value,
         to   |-> Leaves(y)[i].value] ]

\* dyff.CompareInputFiles: one record per leaf whose values differ.
CompareInputFiles(x, y) ==
    LET lx == Leaves(x)
        ly == Leaves(y)
        differs(i) == lx[i].value # ly[i].value
        idx == { i \in DOMAIN lx : differs(i) }
        RECURSIVE collect(_)
        collect(i) ==
            IF i > Len(lx) THEN << >>
            ELSE (IF i \in idx
                  THEN << [path |-> lx[i].path, from |-> lx[i].value, to |-> ly[i].value] >>
                  ELSE << >>) \o collect(i + 1)
    IN collect(1)

\* A comparison that drops the error of a document it cannot load and
\* reports no difference, in the place of New.
NewIgnoringErrors(x, y) ==
    IF x.malformed \/ y.malformed
    THEN [err |-> "", Diffs |-> << >>]
    ELSE [err |-> "", Diffs |-> CompareInputFiles(x, y)]

\* diff.New(aRes, bRes): marshal and load both documents (an error when a
\* document cannot be marshalled or loaded), then compare.
New(x, y) ==
    IF x.malformed
    THEN [err |-> "failed to marshal resource A", Diffs |-> << >>]
    ELSE IF y.malformed
    THEN [err |-> "failed to marshal resource A", Diffs |-> << >>]
    ELSE [err |-> "", Diffs |-> CompareInputFiles(x, y)]

\* helm: yaml.Marshal(aRes), yaml.Marshal(bRes), dyffReport(adoc, bdoc)
dyffReport(x, y) ==
    IF x.malformed
    THEN [err |-> "failed to marshal resource A", Diffs |-> << >>]
    ELSE IF y.malformed
    THEN [err |-> "failed to marshal resource B", Diffs |-> << >>]
    ELSE [err |-> "", Diffs |-> CompareInputFiles(x, y)]

(***************************************************************************)
(* package kube: DiffResources                                             *)
(***************************************************************************)
\* groupVersionKindString(r.GroupVersionKind())
groupVersionKindString(r) ==
    IF r.group = ""
    THEN r.version \o "/" \o r.kind
    ELSE r.group \o "/" \o r.version \o "/" \o r.kind

\* One pass of `for _, r := range rs` from element i on: docs are the
\* documents (changed in place by r.SetName), m the map built so far, whose
\* values are the positions of the documents the stored pointers refer to.
RECURSIVE resourcesByGroupVersionKindAndNameFrom(_, _, _)
resourcesByGroupVersionKindAndNameFrom(docs, i, m) ==
    IF i > Len(docs) THEN [docs |-> docs, res |-> m]
    ELSE LET r == docs[i]
             groupVersionKind == groupVersionKindString(r)
             m1 == IF groupVersionKind \in DOMAIN m
                   THEN m ELSE MapPut(m, groupVersionKind, EmptyMap)
             cut == CutPrefix(r.name, NamePrefix)
             r1 == IF cut.ok THEN [r EXCEPT !.name = cut.after] ELSE r
             m2 == MapPut(m1, groupVersionKind,
                          MapPut(m1[groupVersionKind], r1.name, i))
         IN resourcesByGroupVersionKindAndNameFrom(
                [docs EXCEPT ![i] = r1], i + 1, m2)

\* A normalization that replaces each renamed document by a fresh object
\* carrying the new name but not the namespace, in the place of
\* resourcesByGroupVersionKindAndName.
resourcesByGroupVersionKindAndNameFresh(rs) ==
    LET x == resourcesByGroupVersionKindAndNameFrom(rs, 1, EmptyMap)
    IN [docs |-> [i \in DOMAIN rs |->
                    IF x.docs[i].name # rs[i].name
                    THEN [x.docs[i] EXCEPT !.namespace = ""]
                    ELSE x.docs[i]],
        res |-> x.res]

\* resourcesByGroupVersionKindAndName(rs): the documents after the call and
\* the returned kindNameResourceMap.
resourcesByGroupVersionKindAndName(rs) ==
    resourcesByGroupVersionKindAndNameFrom(rs, 1, EmptyMap)

\* The state of DiffResources' loops: the three slices, the changes map and
\* the error of an early `return nil, err`.
NoAcc ==
    [additions |-> << >>, removals |-> << >>, unchanged |-> << >>,
     changes |-> EmptyMap, err |-> ""]

\* `for aKind, aNameResources := range aResGroups { ... }`, the entries
\* visited in the order oa, from its element i on.
RECURSIVE DiffResourcesLoopA(_, _, _, _)
DiffResourcesLoopA(c, oa, i, acc) ==
    IF i > Len(oa) \/ acc.err # "" THEN acc
    ELSE LET aKind == oa[i].kind
             aName == oa[i].name
             aRes  == Ref("a", c.aResGroups[aKind][aName])
         IN IF aKind \notin DOMAIN c.bResGroups
            THEN DiffResourcesLoopA(c, oa, i + 1,
                    [acc EXCEPT !.removals = Append(@, aRes)])
            ELSE IF aName \notin DOMAIN c.bResGroups[aKind]
            THEN DiffResourcesLoopA(c, oa, i + 1,
                    [acc EXCEPT !.removals = Append(@, aRes)])
            ELSE LET report == New(c.a[aRes.idx],
                                   c.b[c.bResGroups[aKind][aName]])
                 IN IF report.err # ""
                    THEN [acc EXCEPT
                            !.err = "failed to get dyff report: " \o report.err]
                    ELSE IF Len(report.Diffs) > 0
                    THEN DiffResourcesLoopA(c, oa, i + 1,
                            [acc EXCEPT !.changes =
                                MapPut(@, aKind \o "/" \o aName, report)])
                    ELSE DiffResourcesLoopA(c, oa, i + 1,
                            [acc EXCEPT !.unchanged = Append(@, aRes)])

\* `for bKind, bNameResources := range bResGroups { ... }`, in the order ob.
RECURSIVE DiffResourcesLoopB(_, _, _, _)
DiffResourcesLoopB(c, ob, i, acc) ==
    IF i > Len(ob) \/ acc.err # "" THEN acc
    ELSE LET bKind == ob[i].kind
             bName == ob[i].name
             bRes  == Ref("b", c.bResGroups[bKind][bName])
         IN IF bKind \notin DOMAIN c.aResGroups
            THEN DiffResourcesLoopB(c, ob, i + 1,
                    [acc EXCEPT !.removals = Append(@, bRes)])
            ELSE IF bName \notin DOMAIN c.aResGroups[bKind]
            THEN DiffResourcesLoopB(c, ob, i + 1,
                    [acc EXCEPT !.additions = Append(@, bRes)])
            ELSE DiffResourcesLoopB(c, ob, i + 1, acc)

\* What a call returns, from the state of its loops.
Returned(acc) ==
    IF acc.err # ""
    THEN [ret |-> NilValue, err |-> acc.err]
    ELSE [ret |-> [isNil |-> FALSE,
                   Changed |-> acc.changes, Added |-> acc.additions,
                   Removed |-> acc.removals, Unchanged |-> acc.unchanged],
          err |-> ""]

\* The loops and the return of DiffResources, given what the two calls of
\* resourcesByGroupVersionKindAndName left (ga, gb) and the orders oa and ob
\* the two maps are ranged over in: the documents after the call and what
\* it returns.
DiffResourcesOutcome(ga, gb, oa, ob) ==
    LET c  == [a |-> ga.docs, b |-> gb.docs,
               aResGroups |-> ga.res, bResGroups |-> gb.res]
        acc == DiffResourcesLoopB(c, ob, 1, DiffResourcesLoopA(c, oa, 1, NoAcc))
    IN [a |-> ga.docs, b |-> gb.docs, out |-> Returned(acc)]

(***************************************************************************)
(* package helm: resourcesDiff                                             *)
(***************************************************************************)
\* The loop of resourceGroupsFromChart over chart.Resources(), from element
\* i on: the map is keyed by r.GetKind() and then by the trimmed name.
RECURSIVE resourceGroupsFromChartFrom(_, _, _)
resourceGroupsFromChartFrom(docs, i, m) ==
    IF i > Len(docs) THEN [docs |-> docs, res |-> m]
    ELSE LET r  == docs[i]
             m1 == IF r.kind \in DOMAIN m THEN m ELSE MapPut(m, r.kind, EmptyMap)
             r1 == IF HasPrefix(r.name, NamePrefix)
                   THEN [r EXCEPT !.name = TrimPrefix(r.name, NamePrefix)]
                   ELSE r
             m2 == MapPut(m1, r.kind, MapPut(m1[r.kind], r1.name, i))
         IN resourceGroupsFromChartFrom([docs EXCEPT ![i] = r1], i + 1, m2)

\* resourceGroupsFromChart(ctx, chart) once chart.Resources(ctx) returned rs.
resourceGroupsFromChart(rs) ==
    resourceGroupsFromChartFrom(rs, 1, EmptyMap)

\* `for aKind, aNameResources := range aResGroups { ... }` of resourcesDiff.
RECURSIVE resourcesDiffLoopA(_, _, _, _)
resourcesDiffLoopA(c, oa, i, acc) ==
    IF i > Len(oa) \/ acc.err # "" THEN acc
    ELSE LET aKind == oa[i].kind
             aName == oa[i].name
             aRes  == Ref("a", c.aResGroups[aKind][aName])
         IN IF aKind \notin DOMAIN c.bResGroups
            THEN resourcesDiffLoopA(c, oa, i + 1,
                    [acc EXCEPT !.removals = Append(@, aRes)])
            ELSE IF aName \notin DOMAIN c.bResGroups[aKind]
            THEN resourcesDiffLoopA(c, oa, i + 1,
                    [acc EXCEPT !.removals = Append(@, aRes)])
            ELSE LET report == dyffReport(c.a[aRes.idx],
                                          c.b[c.bResGroups[aKind][aName]])
                 IN IF report.err # ""
                    THEN [acc EXCEPT !.err = report.err]
                    ELSE IF Len(report.Diffs) > 0
                    THEN resourcesDiffLoopA(c, oa, i + 1,
                            [acc EXCEPT !.changes = MapPut(@, aName, report)])
                    ELSE resourcesDiffLoopA(c, oa, i + 1,
                            [acc EXCEPT !.unchanged = Append(@, aRes)])

\* `for bKind, bNameResources := range bResGroups { ... }` of resourcesDiff.
RECURSIVE resourcesDiffLoopB(_, _, _, _)
resourcesDiffLoopB(c, ob, i, acc) ==
    IF i > Len(ob) \/ acc.err # "" THEN acc
    ELSE LET bKind == ob[i].kind
             bName == ob[i].name
             bRes  == Ref("b", c.bResGroups[bKind][bName])
         IN IF bKind \notin DOMAIN c.aResGroups
            THEN resourcesDiffLoopB(c, ob, i + 1,
                    [acc EXCEPT !.removals = Append(@, bRes)])
            ELSE IF bName \notin DOMAIN c.aResGroups[bKind]
            THEN resourcesDiffLoopB(c, ob, i + 1,
                    [acc EXCEPT !.additions = Append(@, bRes)])
            ELSE resourcesDiffLoopB(c, ob, i + 1, acc)

\* The loops and the return of resourcesDiff, given what the two calls of
\* resourceGroupsFromChart left (ga, gb) and the orders oa and ob the two
\* maps are ranged over in.
resourcesDiffOutcome(ga, gb, oa, ob) ==
    LET c  == [a |-> ga.docs, b |-> gb.docs,
               aResGroups |-> ga.res, bResGroups |-> gb.res]
        acc == resourcesDiffLoopB(c, ob, 1, resourcesDiffLoopA(c, oa, 1, NoAcc))
    IN [a |-> ga.docs, b |-> gb.docs, out |-> Returned(acc)]

(***************************************************************************)
(* The reconciler as a state machine: the caller builds the two slices,    *)
(* then calls one of the two reconcilers once.                             *)
(***************************************************************************)
InitDiff(U) ==
    /\ universe = U
    /\ a = << >> /\ b = << >>
    /\ inA = << >> /\ inB = << >>
    /\ pc = "input"
    /\ callee = ""
    /\ ret = NilValue
    /\ err = ""

\* The caller appends one document to slice A.
AppendA ==
    /\ pc = "input"
    /\ Len(a) < MaxLenOf(universe)
    /\ \E d \in DocsOf(universe) : a' = Append(a, d)
    /\ inA' = a'
    /\ UNCHANGED <<universe, b, inB, pc, callee, ret, err>>

\* The caller appends one document to slice B.
AppendB ==
    /\ pc = "input"
    /\ Len(b) < MaxLenOf(universe)
    /\ \E d \in DocsOf(universe) : b' = Append(b, d)
    /\ inB' = b'
    /\ UNCHANGED <<universe, a, inA, pc, callee, ret, err>>

\* kube.DiffResources(a, b)
DiffResources ==
    /\ pc = "input"
    /\ LET ga == resourcesByGroupVersionKindAndName(a)
           gb == resourcesByGroupVersionKindAndName(b)
       IN \E oa \in IterOrders(ga.res), ob \in IterOrders(gb.res) :
             LET o == DiffResourcesOutcome(ga, gb, oa, ob)
             IN /\ a' = o.a
                /\ b' = o.b
                /\ ret' = o.out.ret
                /\ err' = o.out.err
    /\ pc' = "done"
    /\ callee' = "DiffResources"
    /\ UNCHANGED <<universe, inA, inB>>

\* helm.resourcesDiff(ctx, a, b); failA / failB: chart.Resources(ctx)
\* returns an error for chart A / chart B.
resourcesDiff ==
    /\ pc = "input"
    /\ \E failA, failB \in BOOLEAN :
          IF failA
          THEN /\ err' = "failed to get resources from chart A"
               /\ ret' = NilValue
               /\ UNCHANGED <<a, b>>
          ELSE IF failB
          THEN /\ err' = "failed to get resources from chart B"
               /\ ret' = NilValue
               /\ a' = resourceGroupsFromChart(a).docs
               /\ UNCHANGED b
          ELSE LET ga == resourceGroupsFromChart(a)
                   gb == resourceGroupsFromChart(b)
               IN \E oa \in IterOrders(ga.res), ob \in IterOrders(gb.res) :
                     LET o == resourcesDiffOutcome(ga, gb, oa, ob)
                     IN /\ a' = o.a
                        /\ b' = o.b
                        /\ ret' = o.out.ret
                        /\ err' = o.out.err
    /\ pc' = "done"
    /\ callee' = "resourcesDiff"
    /\ UNCHANGED <<universe, inA, inB>>

(***************************************************************************)
(* package kube: ResourcesFromManifest                                     *)
(***************************************************************************)
\* What one YAML document of the buffer can be:
\*   "resource"  a well-formed Kubernetes object
\*   "empty"     nothing between two separators (rawObj.Raw is empty)
\*   "syntax"    not valid YAML: decoder.Decode returns an error
\*   "nokind"    valid YAML that is no Kubernetes object: parser.Decode fails
\*   "badname"   an object whose metadata.name is no string: NestedString fails
Shapes == {"resource", "empty", "syntax", "nokind", "badname"}

\* The caller writes one more document into the buffer.
AppendDocument ==
    /\ mpc = "input"
    /\ Len(manifest) < MaxManifest
    /\ \E shape \in Shapes : manifest' = Append(manifest, shape)
    /\ UNCHANGED <<pos, res, mpc, mret, merr>>

\* ResourcesFromManifest(ctx, manifest) is entered: res := []; the decoder
\* is at the start of the buffer.
ResourcesFromManifestCall ==
    /\ mpc = "input"
    /\ mpc' = "loop"
    /\ pos' = 0
    /\ res' = << >>
    /\ UNCHANGED <<manifest, mret, merr>>

\* The loop with `break` in the place of `continue` for an empty document,
\* in the place of ResourcesFromManifestStep.
ResourcesFromManifestStepStoppingAtEmpty ==
    /\ mpc = "loop"
    /\ IF pos >= Len(manifest) \/ manifest[pos + 1] \in {"syntax", "empty"}
       THEN /\ mpc' = "done"
            /\ mret' = [isNil |-> FALSE, items |-> res]
            /\ merr' = ""
            /\ UNCHANGED <<pos, res>>
       ELSE IF manifest[pos + 1] \in {"nokind", "badname"}
       THEN /\ mpc' = "done"
            /\ mret' = NilValue
            /\ merr' = "decode error"
            /\ pos' = pos + 1
            /\ UNCHANGED res
       ELSE /\ res' = Append(res, pos + 1)
            /\ pos' = pos + 1
            /\ UNCHANGED <<mpc, mret, merr>>
    /\ UNCHANGED manifest

\* One iteration of the `for { ... }` loop.  A resource is recorded by the
\* position of its document in the buffer.
ResourcesFromManifestStep ==
    /\ mpc = "loop"
    /\ IF pos >= Len(manifest) \/ manifest[pos + 1] = "syntax"
       \* decoder.Decode returned an error (io.EOF or any other): break
       THEN /\ mpc' = "done"
            /\ mret' = [isNil |-> FALSE, items |-> res]
            /\ merr' = ""
            /\ UNCHANGED <<pos, res>>
       ELSE IF manifest[pos + 1] = "empty"
       \* len(rawObj.Raw) == 0: continue
       THEN /\ pos' = pos + 1
            /\ UNCHANGED <<res, mpc, mret, merr>>
       ELSE IF manifest[pos + 1] = "nokind"
       \* parser.Decode failed: return nil, err
       THEN /\ mpc' = "done"
            /\ mret' = NilValue
            /\ merr' = "Object 'Kind' is missing"
            /\ pos' = pos + 1
            /\ UNCHANGED res
       ELSE IF manifest[pos + 1] = "badname"
       \* unstructured.NestedString failed: return nil, err
       THEN /\ mpc' = "done"
            /\ mret' = NilValue
            /\ merr' = ".metadata.name accessor error"
            /\ pos' = pos + 1
            /\ UNCHANGED res
       \* res = append(res, us)
       ELSE /\ res' = Append(res, pos + 1)
            /\ pos' = pos + 1
            /\ UNCHANGED <<mpc, mret, merr>>
    /\ UNCHANGED manifest

InitManifestIdle ==
    /\ manifest = << >>
    /\ pos = 0
    /\ res = << >>
    /\ mpc = "input"
    /\ mret = NilValue
    /\ merr = ""

(***************************************************************************)
(* package diff: New on two YAML documents, Diff.String                    *)
(***************************************************************************)
\* The scalar nodes of the compared trees, with their YAML tag.
Scalars ==
    { [tag |-> "int",    value |-> "9402"],
      [tag |-> "int",    value |-> "8080"],
      [tag |-> "string", value |-> "http-metrics"] }

\* The list nodes: up to MaxItems string entries.
Lists ==
    { [tag |-> "seq", items |-> s] :
        s \in UNION { [1..n -> {"x", "y"}] : n \in 0..MaxItems } }

\* The keys of the root map, in the order yaml.Marshal writes them.
KeyOrder == <<"args", "port">>

\* The trees: a root map that may hold the list `args` and the scalar `port`.
Trees ==
    UNION { { t \in [K -> Scalars \cup Lists] :
                /\ "args" \in K => t["args"] \in Lists
                /\ "port" \in K => t["port"] \in Scalars } :
            K \in SUBSET {"args", "port"} }

\* The entries of s at the indices in S, in the order of s.
RECURSIVE EntriesAt(_, _, _)
EntriesAt(s, S, i) ==
    IF i > Len(s) THEN << >>
    ELSE (IF i \in S THEN <<s[i]>> ELSE << >>) \o EntriesAt(s, S, i + 1)

\* s[i] is the n-th entry of s with its value: n.
Occurrence(s, i) == Cardinality({ k \in 1..i : s[k] = s[i] })

\* The number of entries of s with the value v.
Count(s, v) == Cardinality({ k \in DOMAIN s : s[k] = v })

\* dyff: one Diff of a path with its details.
DiffAt(path, details) == [path |-> path, details |-> details]

\* Two scalars whose values differ reported as a removal and an addition,
\* in the place of nodeValues.
nodeValuesAsRemovalAndAddition(path, from, to) ==
    IF from.value # to.value
    THEN << DiffAt(path, << [kind |-> "REMOVAL", from |-> <<from.value>>, to |-> << >>],
                            [kind |-> "ADDITION", from |-> << >>, to |-> <<to.value>>] >>) >>
    ELSE << >>

\* dyff nodeValues: two scalars whose values differ are a MODIFICATION.
nodeValues(path, from, to) ==
    IF from.value # to.value
    THEN << DiffAt(path, << [kind |-> "MODIFICATION", from |-> from, to |-> to] >>) >>
    ELSE << >>

\* dyff packChangesAndAddToResult: the order change first, then one Diff
\* with the removals and the additions.
packChangesAndAddToResult(list, path, orderchanges, additions, removals) ==
    list
    \o (IF orderchanges # << >> THEN << DiffAt(path, orderchanges) >> ELSE << >>)
    \o (IF removals # << >> \/ additions # << >>
        THEN << DiffAt(path,
                  (IF removals # << >>
                   THEN << [kind |-> "REMOVAL", from |-> removals, to |-> << >>] >>
                   ELSE << >>)
                  \o (IF additions # << >>
                      THEN << [kind |-> "ADDITION", from |-> << >>, to |-> additions] >>
                      ELSE << >>)) >>
        ELSE << >>)

\* dyff simpleLists: two lists of one entry are compared entry with entry;
\* otherwise the entries without a partner in the other list are removals
\* and additions, and the common entries standing in another order are one
\* ORDERCHANGE unless order changes are ignored.
simpleLists(path, from, to, ignoreOrderChanges) ==
    IF Len(from) = 1 /\ Len(to) = 1
    THEN nodeValues(path \o ".0",
                    [tag |-> "string", value |-> from[1]],
                    [tag |-> "string", value |-> to[1]])
    ELSE LET removed == { i \in DOMAIN from : Occurrence(from, i) > Count(to, from[i]) }
             added == { i \in DOMAIN to : Occurrence(to, i) > Count(from, to[i]) }
             fromCommon == EntriesAt(from, DOMAIN from \ removed, 1)
             toCommon == EntriesAt(to, DOMAIN to \ added, 1)
             orderchanges ==
                 IF ~ignoreOrderChanges /\ fromCommon # toCommon
                 THEN << [kind |-> "ORDERCHANGE", from |-> fromCommon, to |-> toCommon] >>
                 ELSE << >>
         IN packChangesAndAddToResult(<< >>, path, orderchanges,
                                      EntriesAt(to, added, 1),
                                      EntriesAt(from, removed, 1))

\* dyff objects: nodes of different kinds are a MODIFICATION.
objects(path, from, to, ignoreOrderChanges) ==
    IF from.tag = "seq" /\ to.tag = "seq"
    THEN simpleLists(path, from.items, to.items, ignoreOrderChanges)
    ELSE IF from.tag # "seq" /\ to.tag # "seq"
    THEN nodeValues(path, from, to)
    ELSE << DiffAt(path, << [kind |-> "MODIFICATION", from |-> from, to |-> to] >>) >>

\* dyff mappingNodes on the root maps: the keys of both are compared, the
\* keys of one only are removals and additions of the root.
RECURSIVE mappingNodesFrom(_, _, _, _)
mappingNodesFrom(from, to, ignoreOrderChanges, i) ==
    IF i > Len(KeyOrder) THEN << >>
    ELSE LET key == KeyOrder[i]
         IN (IF key \in DOMAIN from /\ key \in DOMAIN to
             THEN objects(key, from[key], to[key], ignoreOrderChanges)
             ELSE << >>)
            \o mappingNodesFrom(from, to, ignoreOrderChanges, i + 1)

\* The keys of KeyOrder that are in S, as a sequence.
KeysIn(S) == EntriesAt(KeyOrder, { i \in DOMAIN KeyOrder : KeyOrder[i] \in S }, 1)

mappingNodes(from, to, ignoreOrderChanges) ==
    packChangesAndAddToResult(
        mappingNodesFrom(from, to, ignoreOrderChanges, 1), "(root level)", << >>,
        KeysIn(DOMAIN to \ DOMAIN from), KeysIn(DOMAIN from \ DOMAIN to))

\* dyff.CompareInputFiles(af, bf, settings...) on two documents.
CompareInputFilesOfTrees(x, y, ignoreOrderChanges) ==
    mappingNodes(x, y, ignoreOrderChanges)

\* diff.New(a, b, opt...) on two YAML documents: the options of the caller
\* are not read, the settings of the comparison are the fixed ones.
NewOfTrees(x, y, o) ==
    [isNil |-> FALSE, Diffs |-> CompareInputFilesOfTrees(x, y, FALSE)]

\* The signs dyff prints for a modification (U+00B1) and an order change
\* (U+21C6), written in ASCII.
ModificationSign == "+/-"
OrderChangeSign == "<->"

\* The entries of a list joined with ", ".
RECURSIVE Join(_)
Join(s) ==
    IF s = << >> THEN ""
    ELSE IF Len(s) = 1 THEN s[1]
    ELSE s[1] \o ", " \o Join(Tail(s))

\* One line per entry, each after the prefix.
Prefixed(prefix, s) == [ i \in DOMAIN s |-> prefix \o s[i] ]

\* dyff.HumanReport under DiffSyntaxReport: the lines of one detail, the
\* kind of change after ChangeTypePrefix "!".
DetailLines(d) ==
    IF d.kind = "MODIFICATION"
    THEN << IF d.from.tag # d.to.tag
            THEN "! " \o ModificationSign \o " type change from "
                 \o d.from.tag \o " to " \o d.to.tag
            ELSE "! " \o ModificationSign \o " value change" >>
         \o << "- " \o (IF d.from.tag = "seq" THEN Join(d.from.items) ELSE d.from.value),
               "+ " \o (IF d.to.tag = "seq" THEN Join(d.to.items) ELSE d.to.value) >>
    ELSE IF d.kind = "ORDERCHANGE"
    THEN << "! " \o OrderChangeSign \o " order changed",
            "- " \o Join(d.from),
            "+ " \o Join(d.to) >>
    ELSE IF d.kind = "REMOVAL"
    THEN << "! - entries removed:" >> \o Prefixed("- ", d.from)
    ELSE << "! + entries added:" >> \o Prefixed("+ ", d.to)

RECURSIVE DetailsLines(_)
DetailsLines(ds) ==
    IF ds = << >> THEN << >> ELSE DetailLines(Head(ds)) \o DetailsLines(Tail(ds))

\* The lines of the report: for each Diff its path between PathPrefix "@@",
\* its details, and an empty line between two Diffs (strings.TrimSpace
\* leaves none at the end).
RECURSIVE ReportLines(_)
ReportLines(diffs) ==
    IF diffs = << >> THEN << >>
    ELSE << "@@ " \o Head(diffs).path \o " @@" >>
         \o DetailsLines(Head(diffs).details)
         \o (IF Len(diffs) > 1 THEN << "" >> ELSE << >>)
         \o ReportLines(Tail(diffs))

\* The caller chooses two documents and what it wants of the comparison.
InitCompare ==
    /\ treeA \in Trees
    /\ treeB \in Trees
    /\ copt \in [ignoreOrderChanges : BOOLEAN]
    /\ cdiff = NilValue
    /\ ctext = << >>
    /\ cpc = "input"
    /\ ColorSetting = "AUTO"
    /\ TrueColorSetting = "AUTO"

\* d, err := diff.New(a, b, opt...)
NewCall ==
    /\ cpc = "input"
    /\ cdiff' = NewOfTrees(treeA, treeB, copt)
    /\ cpc' = "compared"
    /\ UNCHANGED <<treeA, treeB, copt, ctext, ColorSetting, TrueColorSetting>>

\* d.String(): bunt.SetColorSettings(bunt.OFF, bunt.OFF) sets the two
\* package variables of bunt, then the report is written and trimmed.
String ==
    /\ cpc = "compared"
    /\ ColorSetting' = "OFF"
    /\ TrueColorSetting' = "OFF"
    /\ ctext' = ReportLines(cdiff.Diffs)
    /\ cpc' = "formatted"
    /\ UNCHANGED <<treeA, treeB, copt, cdiff>>

\* No comparison of trees is made: the process has bunt's initial settings.
InitCompareIdle ==
    /\ treeA = << >>
    /\ treeB = << >>
    /\ copt = [ignoreOrderChanges |-> FALSE]
    /\ cdiff = NilValue
    /\ ctext = << >>
    /\ cpc = "input"
    /\ ColorSetting = "AUTO"
    /\ TrueColorSetting = "AUTO"

(***************************************************************************)
(* package kube: ResourceFilter; package helm: Chart.Resources             *)
(***************************************************************************)
\* kube.WithName(name) and kube.WithKind(kind), as values.
WithName(name) == [by |-> "name", value |-> name]
WithKind(kind) == [by |-> "kind", value |-> kind]

\* The call filter(res, _) of a ResourceFilter.
Matches(filter, r) ==
    IF filter.by = "name" THEN r.name = filter.value ELSE r.kind = filter.value

\* The filters a caller may supply.
Filters ==
    { WithName("kube-inspect-foo"), WithName("foo"),
      WithKind("Deployment"), WithKind("deployment") }

\* The resources a chart may render.
RenderedDocs == { d \in CoreDocs : ~d.malformed }

\* No call of Chart.Resources is made.
InitResourcesIdle ==
    /\ rendered = << >>
    /\ filters = << >>
    /\ fret = NilValue
    /\ ferr = ""
    /\ fpc = "input"

\* A chart with its rendered resources and the filters of the caller.
InitResources ==
    /\ rendered \in UNION { [1..n -> RenderedDocs] : n \in 0..MaxLen }
    /\ filters \in UNION { [1..n -> Filters] : n \in 0..MaxFilters }
    /\ fret = NilValue
    /\ ferr = ""
    /\ fpc = "input"

\* c.Resources(ctx): render the chart if it is not rendered (an error is
\* returned with a nil slice), decode the manifest (likewise), keep and
\* return its resources.  The method takes no filters.
Resources ==
    /\ fpc = "input"
    /\ \E failed \in {"", "render", "manifest"} :
          IF failed # ""
          THEN /\ fret' = NilValue
               /\ ferr' = failed \o " error"
          ELSE /\ fret' = [isNil |-> FALSE, items |-> rendered]
               /\ ferr' = ""
    /\ fpc' = "done"
    /\ UNCHANGED <<rendered, filters>>

(***************************************************************************)
(* package helm: ChartLocation                                             *)
(***************************************************************************)
\* The URLs a caller may supply: a scheme (or none), up to MaxSegments
\* path segments, and a trailing slash or none.
Schemes == {"file://", "oci://", "https://", "http://", ""}

SegmentNames == {"quay.io", "charts", "cert-manager"}

URLs ==
    { scheme \o StringsJoin(segments, "/") \o slash :
        scheme \in Schemes,
        segments \in UNION { [1..n -> SegmentNames] : n \in 0..MaxSegments },
        slash \in {"", "/"} }

\* &ChartLocation{URL: ..., Repository: ..., Name: ...}
ChartLocation(u, repository, name) ==
    [isNil |-> FALSE, URL |-> u, Repository |-> repository, Name |-> name]

\* (o *ChartLocation) IsLocal()
IsLocal(o) == HasPrefix(o.URL, "file://")

\* (o *ChartLocation) IsOCI(); registry.IsOCI(url) is the same test
IsOCI(o) == HasPrefix(o.URL, "oci://")

\* Every location that is not OCI taken for a Helm repository, in the place
\* of IsHelmRepository.
IsHelmRepositoryUnlessOCI(o) == ~IsOCI(o)

\* (o *ChartLocation) IsHelmRepository()
IsHelmRepository(o) == o.URL = ""

\* (o *ChartLocation) OCIRegistry()
OCIRegistry(o) ==
    IF ~IsOCI(o) THEN ""
    ELSE Split(TrimSuffix(TrimPrefix(o.URL, "oci://"), "/"), "/")[1]

\* The namespace taken up to the end of the URL, chart included, in the
\* place of OCIRegistryAndNamespace.
OCIRegistryAndNamespaceWithChart(o) ==
    IF ~IsOCI(o) THEN <<"", "">>
    ELSE LET parts == Split(TrimSuffix(TrimPrefix(o.URL, "oci://"), "/"), "/")
         IN IF Len(parts) < 2 THEN <<"", "">>
            ELSE <<parts[1], StringsJoin(SubSeq(parts, 2, Len(parts)), "/")>>

\* (o *ChartLocation) OCIRegistryAndNamespace()
OCIRegistryAndNamespace(o) ==
    IF ~IsOCI(o) THEN <<"", "">>
    ELSE LET parts == Split(TrimSuffix(TrimPrefix(o.URL, "oci://"), "/"), "/")
         IN IF Len(parts) < 2 THEN <<"", "">>
            ELSE <<parts[1], StringsJoin(SubSeq(parts, 2, Len(parts) - 1), "/")>>

\* (o *ChartLocation) OCIRepository()
OCIRepository(o) ==
    IF ~IsOCI(o) THEN ""
    ELSE TrimSuffix(TrimPrefix(o.URL, "oci://"), "/")

\* ChartLocationFromURL(url): the location and the error ("" for nil).
ChartLocationFromURL(u) ==
    IF HasPrefix(u, "file://")
    THEN [loc |-> ChartLocation(u, "", ""), err |-> ""]
    ELSE IF HasPrefix(u, "oci://")
    THEN IF Len(Split(u, "/")) < 3
         THEN [loc |-> NilValue,
               err |-> "invalid URL format, expected oci://<registry>/<namespace>/<tag>: " \o u]
         ELSE [loc |-> ChartLocation(u, "", ""), err |-> ""]
    ELSE IF ~HasPrefix(u, "https://") /\ ~HasPrefix(u, "http://")
    THEN [loc |-> NilValue,
          err |-> "invalid URL format, expected <helm repository>/<chart>: " \o u]
    ELSE LET parts == Split(u, "/")
             repo == StringsJoin(SubSeq(parts, 1, Len(parts) - 1), "/")
             chartName == parts[Len(parts)]
         IN IF Len(parts) < 2 \/ repo = "" \/ chartName = ""
            THEN [loc |-> NilValue,
                  err |-> "invalid URL format, expected <helm repository>/<chart>: " \o u]
            ELSE [loc |-> ChartLocation("", repo, chartName), err |-> ""]

\* No URL is parsed.
InitLocationIdle ==
    /\ url = ""
    /\ loc = NilValue
    /\ lerr = ""
    /\ oci = NilValue
    /\ lpc = "input"

\* The caller has a URL.
InitLocation ==
    /\ url \in URLs
    /\ loc = NilValue
    /\ lerr = ""
    /\ oci = NilValue
    /\ lpc = "input"

\* loc, err := ChartLocationFromURL(url)
ChartLocationFromURLCall ==
    /\ lpc = "input"
    /\ loc' = ChartLocationFromURL(url).loc
    /\ lerr' = ChartLocationFromURL(url).err
    /\ lpc' = "located"
    /\ UNCHANGED <<url, oci>>

\* The caller reads the OCI parts of the location it got.
OCIParts ==
    /\ lpc = "located"
    /\ ~loc.isNil
    /\ oci' = [isNil |-> FALSE,
               registry |-> OCIRegistry(loc),
               registryAndNamespace |-> OCIRegistryAndNamespace(loc),
               repository |-> OCIRepository(loc)]
    /\ lpc' = "read"
    /\ UNCHANGED <<url, loc, lerr>>

(***************************************************************************)
(* package helm: chart versions                                            *)
(***************************************************************************)
DefaultChartVersionsLimit == 1000

\* The tags a repository may publish.
Tags == {"1.0.0", "v1.0.0", "2.0.0", "0.9.0", "latest", "vv1.0.0"}

Digits == {"0", "1", "2", "3", "4", "5", "6", "7", "8", "9"}

\* semver.StrictNewVersion(v) returns no error: three numbers with dots.
StrictNewVersion(v) ==
    /\ Len(Split(v, ".")) = 3
    /\ \A i \in 1..3 : Split(v, ".")[i] \in Digits

\* The filter of ChartVersionsMatchingConstraint for the constraint
\* ">=1.0.0": the version is strict semver and the constraint checks.
MatchingConstraint(cv) ==
    StrictNewVersion(cv.Version) /\ Split(cv.Version, ".")[1] # "0"

\* lo.Contains restricted to the last element of the collection.
ContainsAtLast(collection, element) ==
    collection # << >> /\ collection[Len(collection)] = element

\* lo.Contains(collection, element).
Contains(collection, element) ==
    \E i \in DOMAIN collection : collection[i] = element

\* A filter of the caller, given with ChartVersionsWithFilter: versions of
\* major 2 are not wanted.
NotSecondMajor(cv) == Split(cv.Version, ".")[1] # "2"

\* defaultChartVersionsOptions() with the options of the caller applied:
\* ChartVersionsWithLimit(o.limit) when o.withLimit, and
\* ChartVersionsMatchingConstraint when o.constraint.
\* and ChartVersionsWithFilter(NotSecondMajor) when o.filter.
ChartVersionsOptions(o) ==
    [limit |-> IF o.withLimit THEN o.limit ELSE DefaultChartVersionsLimit,
     filters |-> (IF o.constraint THEN <<"MatchingConstraint">> ELSE << >>)
                 \o (IF o.filter THEN <<"NotSecondMajor">> ELSE << >>)]

\* The call filter(cv, 0) of a filter of opts.filters.
FilterAccepts(filter, cv) ==
    IF filter = "MatchingConstraint" THEN MatchingConstraint(cv) ELSE NotSecondMajor(cv)

\* Excluded with the filters combined as a disjunction: a version is rejected
\* only when every filter rejects it.
ExcludedByEveryFilter(cv, fs) ==
    /\ fs # << >>
    /\ \A i \in DOMAIN fs : ~FilterAccepts(fs[i], cv)

\* A filter of opts.filters rejects the version.
Excluded(cv, fs) == \E i \in DOMAIN fs : ~FilterAccepts(fs[i], cv)

\* The number of tags consumed when the page holding tag p + 1 ends.
PageEnd(p) ==
    LET end == ((p \div pageSize) + 1) * pageSize
    IN IF end > Len(vtags) THEN Len(vtags) ELSE end

\* No chart versions are looked up.
InitVersionsIdle ==
    /\ vsource = "oci"
    /\ vtags = << >>
    /\ pageSize = 1
    /\ vopts = [withLimit |-> FALSE, limit |-> 0, constraint |-> FALSE, filter |-> FALSE]
    /\ opts = NilValue
    /\ vpos = 0
    /\ matched = 0
    /\ seenTags = << >>
    /\ collected = << >>
    /\ out = << >>
    /\ vret = NilValue
    /\ verr = ""
    /\ vpc = "input"

\* A repository with its tags, and the options of the caller.
InitVersions ==
    /\ vsource \in {"oci", "helm"}
    /\ vtags \in UNION { [1..n -> Tags] : n \in 0..MaxTags }
    /\ pageSize \in 1..MaxPageSize
    /\ vsource = "helm" => pageSize = 1
    /\ vopts \in [withLimit : BOOLEAN, limit : 0..MaxLimit,
                  constraint : BOOLEAN, filter : BOOLEAN]
    /\ ~vopts.withLimit => vopts.limit = 0
    /\ opts = NilValue
    /\ vpos = 0
    /\ matched = 0
    /\ seenTags = << >>
    /\ collected = << >>
    /\ out = << >>
    /\ vret = NilValue
    /\ verr = ""
    /\ vpc = "input"

\* The entry of ChartVersionsFromOCIRepository / FromHelmRepository: the
\* options are applied to the defaults; the index file may fail to
\* download or load, or the tags to list (nil and the error are returned).
ChartVersionsCall ==
    /\ vpc = "input"
    /\ opts' = ChartVersionsOptions(vopts)
    /\ \E failed \in BOOLEAN :
          IF failed
          THEN /\ vpc' = "done"
               /\ vret' = NilValue
               /\ verr' = "repository error"
          ELSE /\ vpc' = "loop"
               /\ UNCHANGED <<vret, verr>>
    /\ UNCHANGED <<vsource, vtags, pageSize, vopts, vpos, matched, seenTags, collected, out>>

\* One tag of the callback of repo.Tags, which is called page by page.
ChartVersionsFromOCIRepository ==
    /\ vpc = "loop"
    /\ vsource = "oci"
    /\ IF vpos >= Len(vtags)
       \* the last page is done: return out, nil
       THEN /\ vpc' = "done"
            /\ vret' = [isNil |-> FALSE, items |-> out]
            /\ verr' = ""
            /\ UNCHANGED <<vpos, matched, seenTags, collected, out>>
       ELSE IF matched >= opts.limit
       \* break: the rest of this page is skipped
       THEN /\ vpos' = PageEnd(vpos)
            /\ UNCHANGED <<matched, seenTags, collected, out, vpc, vret, verr>>
       ELSE LET tag == TrimPrefix(vtags[vpos + 1], "v")
                cv == [Version |-> tag]
            IN /\ vpos' = vpos + 1
               /\ IF ~StrictNewVersion(tag)
                  \* the message is written to the collector; continue
                  THEN /\ collected' = Append(collected,
                            "version \"" \o tag \o "\" was not valid semver\n")
                       /\ UNCHANGED <<matched, seenTags, out>>
                  ELSE IF \/ Excluded(cv, opts.filters)
                          \/ Contains(seenTags, tag)
                  \* continue
                  THEN UNCHANGED <<matched, seenTags, collected, out>>
                  ELSE /\ matched' = matched + 1
                       /\ seenTags' = Append(seenTags, tag)
                       /\ out' = Append(out, cv)
                       /\ UNCHANGED collected
               /\ UNCHANGED <<vpc, vret, verr>>
    /\ UNCHANGED <<vsource, vtags, pageSize, vopts, opts>>

\* One entry of indexFile.Entries[chartName].
ChartVersionsFromHelmRepository ==
    /\ vpc = "loop"
    /\ vsource = "helm"
    /\ IF vpos >= Len(vtags) \/ matched >= opts.limit
       \* the entries are done, or break: return out, nil
       THEN /\ vpc' = "done"
            /\ vret' = [isNil |-> FALSE, items |-> out]
            /\ verr' = ""
            /\ UNCHANGED <<vpos, matched, collected, out>>
       ELSE LET ver == TrimPrefix(vtags[vpos + 1], "v")
                cv == [Version |-> ver]
            IN /\ vpos' = vpos + 1
               /\ IF ~StrictNewVersion(ver)
                  \* the message is written to the collector; continue
                  THEN /\ collected' = Append(collected,
                            "version \"" \o ver \o "\" was not valid semver.")
                       /\ UNCHANGED <<matched, out>>
                  ELSE IF Excluded(cv, opts.filters)
                  \* continue
                  THEN UNCHANGED <<matched, collected, out>>
                  ELSE /\ matched' = matched + 1
                       /\ out' = Append(out, cv)
                       /\ UNCHANGED collected
               /\ UNCHANGED <<vpc, vret, verr>>
    /\ UNCHANGED <<vsource, vtags, pageSize, vopts, opts, seenTags>>

(***************************************************************************)
(* package helm: Chart.render, Chart.autoAdjustKubeVersion and             *)
(* Chart.Resources.                                                        *)
(***************************************************************************)
\* A uint64 is held as four limbs of 16 bits, the most significant first.
Limb == 65536

\* The uint64 of a number below Limb.
Uint64(n) == <<0, 0, 0, n>>

\* u - 1 in uint64 arithmetic.
Uint64Sub1(u) ==
    IF u[4] > 0 THEN <<u[1], u[2], u[3], u[4] - 1>>
    ELSE IF u[3] > 0 THEN <<u[1], u[2], u[3] - 1, Limb - 1>>
    ELSE IF u[2] > 0 THEN <<u[1], u[2] - 1, Limb - 1, Limb - 1>>
    ELSE IF u[1] > 0 THEN <<u[1] - 1, Limb - 1, Limb - 1, Limb - 1>>
    ELSE <<Limb - 1, Limb - 1, Limb - 1, Limb - 1>>

\* u + 1 in uint64 arithmetic.
Uint64Add1(u) ==
    IF u[4] < Limb - 1 THEN <<u[1], u[2], u[3], u[4] + 1>>
    ELSE IF u[3] < Limb - 1 THEN <<u[1], u[2], u[3] + 1, 0>>
    ELSE IF u[2] < Limb - 1 THEN <<u[1], u[2] + 1, 0, 0>>
    ELSE IF u[1] < Limb - 1 THEN <<u[1] + 1, 0, 0, 0>>
    ELSE <<0, 0, 0, 0>>

\* u < v for two uint64.
Uint64Less(u, v) ==
    \E i \in 1..4 : u[i] < v[i] /\ \A k \in 1..(i - 1) : u[k] = v[k]

\* The decimal digits in their order.
DigitChars == <<"0", "1", "2", "3", "4", "5", "6", "7", "8", "9">>

\* strconv.ParseUint(s, 10, 64) of a string of digits.
RECURSIVE ParseUint(_)
ParseUint(s) ==
    IF s = "" THEN 0
    ELSE ParseUint(SubSeq(s, 1, Len(s) - 1)) * 10
         + (CHOOSE d \in 0..9 : DigitChars[d + 1] = SubSeq(s, Len(s), Len(s)))

IsNumeral(s) == s # "" /\ \A i \in 1..Len(s) : SubSeq(s, i, i) \in Digits

\* semver.New(major, minor, patch, "", "")
SemverNew(major, minor, patch) ==
    [ok |-> TRUE, major |-> major, minor |-> minor, patch |-> patch]

\* The version of the numbers between the dots of a version string.
VersionOfParts(parts) ==
    IF Len(parts) <= 3 /\ \A i \in 1..Len(parts) : IsNumeral(parts[i])
    THEN SemverNew(ParseUint(parts[1]),
                   Uint64(IF Len(parts) >= 2 THEN ParseUint(parts[2]) ELSE 0),
                   IF Len(parts) >= 3 THEN ParseUint(parts[3]) ELSE 0)
    ELSE [ok |-> FALSE, major |-> 0, minor |-> Uint64(0), patch |-> 0]

\* semver.NewVersion(s): an optional "v", then one to three numbers; the
\* numbers left out are 0.  ok is FALSE when an error is returned.
NewVersion(s) == VersionOfParts(Split(TrimPrefix(s, "v"), "."))

\* (v *Version) LessThan(w)
LessThan(v, w) ==
    \/ v.major < w.major
    \/ v.major = w.major /\ Uint64Less(v.minor, w.minor)
    \/ v.major = w.major /\ v.minor = w.minor /\ v.patch < w.patch

\* (v *Version) Equal(w)
Equal(v, w) == v.major = w.major /\ v.minor = w.minor /\ v.patch = w.patch

\* The comparison operators of a constraint, the longer before the shorter.
Operators == <<">=", "<=", ">", "<", "=", "~", "^">>

\* One constraint of a constraint string: its operator (origfunc), the
\* version as written (orig) and parsed (con).
ParseConstraint(s) ==
    LET at == { i \in DOMAIN Operators : HasPrefix(s, Operators[i]) }
        origfunc == IF at = {} THEN ""
                    ELSE Operators[CHOOSE i \in at : \A k \in at : i <= k]
        orig == TrimPrefix(s, origfunc)
    IN [origfunc |-> origfunc, orig |-> orig, con |-> NewVersion(orig)]

\* semver.NewConstraint(s): the constraints separated by a space hold
\* together.  ok is FALSE when an error is returned.
NewConstraint(s) ==
    LET parts == Split(s, " ")
        cs == [ i \in DOMAIN parts |-> ParseConstraint(parts[i]) ]
    IN [ok |-> \A i \in DOMAIN cs : cs[i].con.ok, constraints |-> cs]

\* (cs Constraints) String()
ConstraintsString(vc) ==
    StringsJoin([ i \in DOMAIN vc.constraints |->
                    vc.constraints[i].origfunc \o vc.constraints[i].orig ], " ")

\* The check of one constraint against a version.
ConstraintCheck(c, v) ==
    IF c.origfunc = ">=" THEN ~LessThan(v, c.con)
    ELSE IF c.origfunc = "<=" THEN ~LessThan(c.con, v)
    ELSE IF c.origfunc = ">" THEN LessThan(c.con, v)
    ELSE IF c.origfunc = "<" THEN LessThan(v, c.con)
    ELSE IF c.origfunc = "~"
    THEN v.major = c.con.major /\ v.minor = c.con.minor /\ ~LessThan(v, c.con)
    ELSE IF c.origfunc = "^" THEN v.major = c.con.major /\ ~LessThan(v, c.con)
    ELSE Equal(v, c.con)

\* (cs Constraints) Check(v)
Check(vc, v) == \A i \in DOMAIN vc.constraints : ConstraintCheck(vc.constraints[i], v)

\* helmchartutil.DefaultCapabilities.KubeVersion.String()
DefaultKubeVersion == "v1.20.0"

\* strings.TrimSpace(s), for the spaces of a constraint string.
RECURSIVE TrimSpace(_)
TrimSpace(s) ==
    IF HasPrefix(s, " ") THEN TrimSpace(SubSeq(s, 2, Len(s)))
    ELSE IF HasSuffix(s, " ") THEN TrimSpace(SubSeq(s, 1, Len(s) - 1))
    ELSE s

\* What autoAdjustKubeVersion leaves behind: the error returned ("" for
\* nil), whether it panicked, and the installer's KubeVersion.
Adjusted(e, panicked, kv) == [err |-> e, panic |-> panicked, KubeVersion |-> kv]

\* semver.New(ov.Major(), ov.Minor()-1, ov.Patch(), "", "") of a parsed ov;
\* the subtraction is that of uint64.
MinorBelow(ov) ==
    IF ov.ok THEN SemverNew(ov.major, Uint64Sub1(ov.minor), ov.patch) ELSE ov

\* semver.New(ov.Major(), ov.Minor()+1, ov.Patch(), "", "") of a parsed ov.
MinorAbove(ov) ==
    IF ov.ok THEN SemverNew(ov.major, Uint64Add1(ov.minor), ov.patch) ELSE ov

\* The *semver.Version uv of autoAdjustKubeVersion for a constraint string:
\* [isNil |-> TRUE] when no branch assigns it.
WantedVersion(constraintStr) ==
    IF HasPrefix(constraintStr, "<=") \/ HasPrefix(constraintStr, ">=")
    THEN [isNil |-> FALSE,
          v |-> NewVersion(TrimPrefix(TrimPrefix(constraintStr, "<="), ">="))]
    ELSE IF HasPrefix(constraintStr, "<")
    THEN [isNil |-> FALSE, v |-> MinorBelow(NewVersion(TrimPrefix(constraintStr, "<")))]
    ELSE IF HasPrefix(constraintStr, ">")
    THEN [isNil |-> FALSE, v |-> MinorAbove(NewVersion(TrimPrefix(constraintStr, ">")))]
    ELSE NilValue

\* The body of autoAdjustKubeVersion once the constraint vc, the default
\* version dv and the wanted version uv are there.
adjustKubeVersion(vc, dv, uv) ==
    IF ~vc.ok THEN Adjusted("improper constraint", FALSE, NilValue)
    ELSE IF Check(vc, dv) THEN Adjusted("", FALSE, NilValue)
    ELSE IF uv.isNil THEN Adjusted("", TRUE, NilValue)
    ELSE IF ~uv.v.ok THEN Adjusted("Invalid Semantic Version", FALSE, NilValue)
    ELSE Adjusted("", FALSE,
                  [isNil |-> FALSE, major |-> uv.v.major,
                   minor |-> uv.v.minor, patch |-> uv.v.patch])

\* (c *Chart) autoAdjustKubeVersion(ctx, installer) for a chart whose
\* metadata holds the constraint kubeVersion; the installer's KubeVersion
\* is nil on entry.  uv.String() on a nil uv is a nil pointer dereference.
autoAdjustKubeVersion(kubeVersion) ==
    IF kubeVersion = "" THEN Adjusted("", FALSE, NilValue)
    ELSE adjustKubeVersion(NewConstraint(kubeVersion),
                           NewVersion(DefaultKubeVersion),
                           WantedVersion(TrimSpace(ConstraintsString(
                               NewConstraint(kubeVersion)))))

\* The kubeVersion constraints of the charts.
KubeVersions ==
    {"", "not-a-constraint", ">=1.21.0 <1.23.0"}
    \cup { op \o v : op \in {">=", "<=", ">", "<", "=", "~", "^", ""},
                     v \in {"1.0.0", "1.19.0", "1.20.0", "1.21.5", "2.0.0"} }

\* The charts: nil, or a chart with a kubeVersion constraint in its metadata.
Charts ==
    {[isNil |-> TRUE, KubeVersion |-> ""]}
    \cup { [isNil |-> FALSE, KubeVersion |-> k] : k \in KubeVersions }

\* The manifests a dry-run install may give (release.Manifest), a document
\* by its shape.
ReleaseManifests == { <<"resource">>, <<"resource", "resource">>, <<"nokind">>, << >> }

\* kube.ResourcesFromManifest(ctx, manifest) as a whole: the resources by
\* the places of their documents, or nil and the error of the first
\* document that does not decode.
ResourcesFromManifest(m) ==
    IF \E i \in DOMAIN m : m[i] \in {"nokind", "badname"}
    THEN [items |-> NilValue, err |-> "decode error"]
    ELSE [items |-> [isNil |-> FALSE,
                     items |-> EntriesAt([ i \in DOMAIN m |-> i ],
                                         { i \in DOMAIN m : m[i] = "resource" }, 1)],
          err |-> ""]

\* What a render leaves behind.
Render(e, panicked, isRendered, m, ran, inst) ==
    [err |-> e, panic |-> panicked, rendered |-> isRendered, manifest |-> m,
     ran |-> ran, installer |-> inst]

\* render with c.rendered set before the installer has run, in the place
\* of render.
renderMarkedBeforeInstall(installFails, release) ==
    IF hc.isNil THEN Render("cannot render nil chart.", FALSE, cRendered, cManifest, 0, NilValue)
    ELSE IF cRendered THEN Render("", FALSE, cRendered, cManifest, 0, NilValue)
    ELSE LET adj == autoAdjustKubeVersion(hc.KubeVersion)
             inst == [isNil |-> FALSE, KubeVersion |-> adj.KubeVersion]
         IN IF adj.panic THEN Render("", TRUE, TRUE, cManifest, 0, inst)
            ELSE IF adj.err # "" THEN Render(adj.err, FALSE, TRUE, cManifest, 0, inst)
            ELSE IF installFails THEN Render("install error", FALSE, TRUE, cManifest, 1, inst)
            ELSE Render("", FALSE, TRUE, [isNil |-> FALSE, docs |-> release], 1, inst)

\* (c *Chart) render(ctx): installFails and release are what installer.Run
\* does when it is called.
render(installFails, release) ==
    IF hc.isNil THEN Render("cannot render nil chart.", FALSE, cRendered, cManifest, 0, NilValue)
    ELSE IF cRendered THEN Render("", FALSE, cRendered, cManifest, 0, NilValue)
    ELSE LET adj == autoAdjustKubeVersion(hc.KubeVersion)
             inst == [isNil |-> FALSE, KubeVersion |-> adj.KubeVersion]
         IN IF adj.panic THEN Render("", TRUE, cRendered, cManifest, 0, inst)
            ELSE IF adj.err # "" THEN Render(adj.err, FALSE, cRendered, cManifest, 0, inst)
            ELSE IF installFails THEN Render("install error", FALSE, cRendered, cManifest, 1, inst)
            ELSE Render("", FALSE, TRUE, [isNil |-> FALSE, docs |-> release], 1, inst)

\* No chart is inspected.
InitChartIdle ==
    /\ hc = [isNil |-> TRUE, KubeVersion |-> ""]
    /\ cRendered = FALSE
    /\ cManifest = NilValue
    /\ installs = 0
    /\ installer = NilValue
    /\ ncalls = 0
    /\ rret = NilValue
    /\ rerr = ""
    /\ rpc = "idle"

\* A Chart as Inspect returns it: not rendered, no manifest.
InitChart ==
    /\ hc \in Charts
    /\ cRendered = FALSE
    /\ cManifest = NilValue
    /\ installs = 0
    /\ installer = NilValue
    /\ ncalls = 0
    /\ rret = NilValue
    /\ rerr = ""
    /\ rpc = "ready"

\* The rest of c.Resources(ctx) after r, what the render left behind (or
\* what was there when no render was needed).
ResourcesAfter(r) ==
    /\ cRendered' = r.rendered
    /\ cManifest' = r.manifest
    /\ installs' = installs + r.ran
    /\ installer' = r.installer
    /\ IF r.panic
       THEN /\ rpc' = "panic"
            /\ UNCHANGED <<rret, rerr>>
       ELSE IF r.err # ""
       THEN /\ rpc' = "returned"
            /\ rret' = NilValue
            /\ rerr' = r.err
       ELSE /\ rpc' = "returned"
            /\ rret' = ResourcesFromManifest(r.manifest.docs).items
            /\ rerr' = ResourcesFromManifest(r.manifest.docs).err

\* c.Resources(ctx) on the chart: render when c.rendered is false, then
\* decode c.manifest.  A panic ends the process.
ChartResources ==
    /\ rpc \in {"ready", "returned"}
    /\ ncalls < MaxCalls
    /\ ncalls' = ncalls + 1
    /\ \E installFails \in BOOLEAN, release \in ReleaseManifests :
          ResourcesAfter(IF ~cRendered THEN render(installFails, release)
                         ELSE Render("", FALSE, cRendered, cManifest, 0, installer))
    /\ UNCHANGED hc

(***************************************************************************)
(* package helm: Chart.OptionalResources.                                  *)
(***************************************************************************)
\* The names of the properties of a values schema.
PropNames == {"create", "Enabled", "pdb"}

\* What a schema declares for one property: its types and the value the
\* chart's default values give it ("none": no boolean there).
PropertyShapes ==
    { [Types |-> <<"boolean">>, Default |-> "true"],
      [Types |-> <<"boolean">>, Default |-> "false"],
      [Types |-> <<"object">>, Default |-> "none"],
      [Types |-> <<"boolean", "string">>, Default |-> "true"],
      [Types |-> << >>, Default |-> "none"] }

UpperCase == "ABCDEFGHIJKLMNOPQRSTUVWXYZ"
LowerCase == "abcdefghijklmnopqrstuvwxyz"

\* strings.ToLower(s)
RECURSIVE ToLower(_)
ToLower(s) ==
    IF s = "" THEN ""
    ELSE LET c == SubSeq(s, 1, 1)
             at == { i \in 1..Len(UpperCase) : SubSeq(UpperCase, i, i) = c }
         IN (IF at = {} THEN c
             ELSE LET i == CHOOSE i \in at : TRUE IN SubSeq(LowerCase, i, i))
            \o ToLower(SubSeq(s, 2, Len(s)))

resourceTogglePropNames == <<"create", "enabled">>

\* likelyResourceToggle(propName, prop).  prop.Types[0] of an empty slice
\* is an index out of range: the call panics.
likelyResourceToggle(propName, prop) ==
    IF Len(prop.Types) > 1 THEN [panic |-> FALSE, toggle |-> FALSE]
    ELSE IF Len(prop.Types) = 0 THEN [panic |-> TRUE, toggle |-> FALSE]
    ELSE IF prop.Types[1] # "boolean" THEN [panic |-> FALSE, toggle |-> FALSE]
    ELSE [panic |-> FALSE,
          toggle |-> Contains(resourceTogglePropNames, ToLower(propName))]

\* The orders a run may range over the properties in: one ranking of all
\* the paths, the properties of one map taken in the order of their ranks.
PropertyOrders(s) ==
    { o \in [1..Cardinality(DOMAIN s) -> DOMAIN s] :
        \A i, j \in DOMAIN o : i # j => o[i] # o[j] }

\* The path is a property of the schema at parent (<< >>: the schema itself).
PropertyOf(path, parent) ==
    Len(path) = Len(parent) + 1 /\ SubSeq(path, 1, Len(parent)) = parent

\* collectOptionalResources(ctx, dottedKey, propName, prop, parent) for the
\* property at path, and the loop over the properties of the schema at
\* path from the i-th of the order on: the slice built, or a panic.
RECURSIVE collectOptionalResources(_, _, _)
RECURSIVE collectProperties(_, _, _, _)
collectOptionalResources(s, order, path) ==
    LET fullKey == StringsJoin(path, ".")
        likely == likelyResourceToggle(path[Len(path)], s[path])
    IN IF likely.panic THEN [panic |-> TRUE, res |-> << >>]
       ELSE IF likely.toggle
       THEN [panic |-> FALSE,
             res |-> << [ValueToggle |-> fullKey, DefaultEnabled |-> TRUE] >>]
       ELSE collectProperties(s, order, path, 1)

collectProperties(s, order, parent, i) ==
    IF i > Len(order) THEN [panic |-> FALSE, res |-> << >>]
    ELSE IF ~PropertyOf(order[i], parent) THEN collectProperties(s, order, parent, i + 1)
    ELSE LET first == collectOptionalResources(s, order, order[i])
             rest == collectProperties(s, order, parent, i + 1)
         IN IF first.panic \/ rest.panic THEN [panic |-> TRUE, res |-> << >>]
            ELSE [panic |-> FALSE, res |-> first.res \o rest.res]

\* No chart is asked for its optional resources.
InitOptionalIdle ==
    /\ oc = "nil"
    /\ schema = << >>
    /\ ores = NilValue
    /\ oerr = ""
    /\ opc = "idle"

\* A chart: nil, without a values schema, or with one that has no
\* properties yet.
InitOptional ==
    /\ oc \in {"nil", "noschema", "schema"}
    /\ schema = << >>
    /\ ores = NilValue
    /\ oerr = ""
    /\ opc = "input"

\* The schema of the chart declares one more property, in the schema itself
\* or under a property it has.
AddProperty ==
    /\ opc = "input"
    /\ oc = "schema"
    /\ Cardinality(DOMAIN schema) < MaxProperties
    /\ \E parent \in DOMAIN schema \cup {<< >>}, name \in PropNames,
          shape \in PropertyShapes :
          /\ Append(parent, name) \notin DOMAIN schema
          /\ schema' = MapPut(schema, Append(parent, name), shape)
    /\ UNCHANGED <<oc, ores, oerr, opc>>

\* c.OptionalResources(ctx)
OptionalResources ==
    /\ opc = "input"
    /\ IF oc = "nil"
       THEN ores' = NilValue /\ oerr' = "" /\ opc' = "done"
       ELSE IF oc = "noschema"
       THEN ores' = [isNil |-> FALSE, items |-> << >>] /\ oerr' = "" /\ opc' = "done"
       ELSE \E compiled \in BOOLEAN, order \in PropertyOrders(schema) :
               IF ~compiled
               THEN ores' = NilValue /\ oerr' = "schema error" /\ opc' = "done"
               ELSE LET r == collectProperties(schema, order, << >>, 1)
                    IN IF r.panic
                       THEN opc' = "panic" /\ UNCHANGED <<ores, oerr>>
                       ELSE /\ ores' = [isNil |-> FALSE, items |-> r.res]
                            /\ oerr' = ""
                            /\ opc' = "done"
    /\ UNCHANGED <<oc, schema>>

(***************************************************************************)
(* package debug: PushTrace, PopTrace, Printf and Println.                 *)
(*                                                                         *)
(* A trace stack is a Go slice: a backing array, of which several slices   *)
(* may be views, and a length.  A trace is held by its name; its start     *)
(* time and the duration of the end line are not modelled.                 *)
(***************************************************************************)
debugPrefix == "[kube-inspect]"

\* strings.Repeat(s, count)
RECURSIVE Repeat(_, _)
Repeat(s, count) == IF count = 0 THEN "" ELSE s \o Repeat(s, count - 1)

\* The capacity append gives a []trace it has to grow.
GrownCap(oldCap) == IF oldCap = 0 THEN 1 ELSE 2 * oldCap

\* The capacity of a slice that n appends have built from an empty one.
RECURSIVE CapAfter(_)
CapAfter(n) ==
    IF n = 0 THEN 0
    ELSE IF n - 1 < CapAfter(n - 1) THEN CapAfter(n - 1) ELSE GrownCap(CapAfter(n - 1))

\* traceStack(ctx): the slice under TraceKey, as its elements.
traceStack(ctx, mem) == IF ctx.arr = 0 THEN << >> ELSE SubSeq(mem[ctx.arr], 1, ctx.len)

\* kictx.Debug(ctx) and debugWriters(ctx) have writers.
HasWriters(ctx) == ctx.writers

\* append(stack, trace{name: name}): the memory and the slice after it.
\* With room in the backing array the element is written in place.
AppendTrace(ctx, mem, name) ==
    IF ctx.arr # 0 /\ ctx.len < Len(mem[ctx.arr])
    THEN [mem |-> [mem EXCEPT ![ctx.arr][ctx.len + 1] = name],
          arr |-> ctx.arr, len |-> ctx.len + 1]
    ELSE LET old == traceStack(ctx, mem)
             newCap == GrownCap(Len(old))
         IN [mem |-> Append(mem, [ i \in 1..newCap |->
                                     IF i <= Len(old) THEN old[i]
                                     ELSE IF i = Len(old) + 1 THEN name ELSE "" ]),
             arr |-> Len(mem) + 1, len |-> Len(old) + 1]

\* The line of printTraceStart for a stack.
TraceStartLine(stack) ==
    debugPrefix \o Repeat(" ", Len(stack)) \o stack[Len(stack)] \o "\n"

\* The line of printTraceEnd for a stack.
TraceEndLine(stack) ==
    debugPrefix \o Repeat(" ", Len(stack)) \o stack[Len(stack)] \o " (took 0s)\n"

\* normalizeFormat(ctx, format)
normalizeFormat(stack, format) ==
    debugPrefix \o Repeat(" ", Len(stack)) \o ">> "
    \o TrimPrefix(TrimPrefix(format, debugPrefix), " ")

\* The formats of the messages.
Formats == {"done\n", "[kube-inspect] done"}

\* The name of the trace the next PushTrace pushes.
TraceNames == <<"t1", "t2", "t3", "t4", "t5", "t6">>

\* The names of the traces on the caller's own stack.
OwnNames == <<"helm:inspect", "helm:chart:render", "kube:resources-from-manifest",
              "r4", "r5">>

\* No context is traced.
InitTraceIdle ==
    /\ ctxs = << >>
    /\ arrays = << >>
    /\ written = << >>
    /\ nmsgs = 0
    /\ tret = 0
    /\ tpc = "idle"

\* The caller's own context: without debug writers and traces, or with
\* writers and as many traces as earlier calls of PushTrace have pushed.
InitTrace ==
    /\ \E writers \in BOOLEAN, depth \in 0..MaxDepth :
          /\ ~writers => depth = 0
          /\ ctxs = << [writers |-> writers,
                        arr |-> IF depth = 0 THEN 0 ELSE 1,
                        len |-> depth,
                        made |-> "own", from |-> 0, name |-> ""] >>
          /\ arrays = IF depth = 0 THEN << >>
                      ELSE << [ i \in 1..CapAfter(depth) |->
                                  IF i <= depth THEN OwnNames[i] ELSE "" ] >>
    /\ written = << >>
    /\ nmsgs = 0
    /\ tret = 0
    /\ tpc = "run"

\* debug.PushTrace(ctx, name) for a context the program holds.
PushTrace ==
    /\ tpc = "run"
    /\ Len(ctxs) < MaxContexts
    /\ \E c \in DOMAIN ctxs :
          IF ~HasWriters(ctxs[c])
          THEN /\ tret' = c
               /\ UNCHANGED <<ctxs, arrays, written>>
          ELSE LET name == TraceNames[Len(ctxs)]
                   pushed == AppendTrace(ctxs[c], arrays, name)
               IN /\ arrays' = pushed.mem
                  /\ ctxs' = Append(ctxs, [writers |-> TRUE, arr |-> pushed.arr,
                                           len |-> pushed.len,
                                           made |-> "push", from |-> c, name |-> name])
                  /\ written' = Append(written,
                        [call |-> "PushTrace", ctx |-> Len(ctxs) + 1,
                         text |-> TraceStartLine(
                                    SubSeq(pushed.mem[pushed.arr], 1, pushed.len))])
                  /\ tret' = Len(ctxs) + 1
    /\ UNCHANGED <<nmsgs, tpc>>

\* debug.PopTrace(ctx) for a context the program holds.  stack[:len-1] of
\* an empty stack is a slice out of range: the call panics.
PopTrace ==
    /\ tpc = "run"
    /\ Len(ctxs) < MaxContexts
    /\ \E c \in DOMAIN ctxs :
          IF ~HasWriters(ctxs[c])
          THEN /\ tret' = c
               /\ UNCHANGED <<ctxs, written, tpc>>
          ELSE IF ctxs[c].len = 0
          THEN /\ tpc' = "panic"
               /\ UNCHANGED <<ctxs, written, tret>>
          ELSE /\ written' = Append(written,
                     [call |-> "PopTrace", ctx |-> c,
                      text |-> TraceEndLine(traceStack(ctxs[c], arrays))])
               /\ ctxs' = Append(ctxs, [writers |-> TRUE, arr |-> ctxs[c].arr,
                                        len |-> ctxs[c].len - 1,
                                        made |-> "pop", from |-> c, name |-> ""])
               /\ tret' = Len(ctxs) + 1
               /\ UNCHANGED tpc
    /\ UNCHANGED <<arrays, nmsgs>>

\* debug.Printf(ctx, format) for a context the program holds.
Printf ==
    /\ tpc = "run"
    /\ nmsgs < MaxMessages
    /\ nmsgs' = nmsgs + 1
    /\ \E c \in DOMAIN ctxs, format \in Formats :
          IF ~HasWriters(ctxs[c]) THEN UNCHANGED written
          ELSE written' = Append(written,
                  [call |-> "Printf", ctx |-> c,
                   text |-> normalizeFormat(traceStack(ctxs[c], arrays), format)])
    /\ UNCHANGED <<ctxs, arrays, tret, tpc>>

\* debug.Println(ctx, format) for a context the program holds.
Println ==
    /\ tpc = "run"
    /\ nmsgs < MaxMessages
    /\ nmsgs' = nmsgs + 1
    /\ \E c \in DOMAIN ctxs, format \in Formats :
          IF ~HasWriters(ctxs[c]) THEN UNCHANGED written
          ELSE written' = Append(written,
                  [call |-> "Println", ctx |-> c,
                   text |-> TrimSuffix(
                              normalizeFormat(traceStack(ctxs[c], arrays), format),
                              "\n") \o "\n"])
    /\ UNCHANGED <<ctxs, arrays, tret, tpc>>

(***************************************************************************)
(* package helm: Inspect of an OCI URL, and fetchOCI.                      *)
(***************************************************************************)
\* What the steps of a fetch may do: each fails or not.
Failures ==
    [newClient : BOOLEAN, mkdirTemp : BOOLEAN, init : BOOLEAN, pull : BOOLEAN,
     firstDir : BOOLEAN, load : BOOLEAN]

\* fetchOCI(ctx, repoURL, chartVersion, registryClient) with the temporary
\* directories dirs in existence: the directory returned (0: none), the
\* error, and the directories in existence after it.
fetchOCI(dirs, untarDir, fails) ==
    IF fails.mkdirTemp
    THEN [untarDir |-> 0, err |-> "failed to create untar dir", dirs |-> dirs]
    ELSE IF fails.init
    THEN [untarDir |-> 0, err |-> "failed to init action config",
          dirs |-> dirs \cup {untarDir}]
    ELSE IF fails.pull
    \* os.RemoveAll(untarDir)
    THEN [untarDir |-> 0, err |-> "failed to pull chart", dirs |-> dirs]
    ELSE [untarDir |-> untarDir, err |-> "", dirs |-> dirs \cup {untarDir}]

\* What Inspect leaves behind.
Inspected(chart, e, dirs, mk) == [chart |-> chart, err |-> e, dirs |-> dirs, made |-> mk]

\* Inspect(ctx, subject, opt...) for a subject that is an OCI URL.  The
\* deferred os.RemoveAll(untarDir) runs on every return after a fetch
\* that succeeded.
InspectOCI(o, dirs, mk, fails) ==
    IF ~o.registryClient /\ fails.newClient
    THEN Inspected(NilValue, "failed to create default registry client", dirs, mk)
    ELSE IF o.chartVersion = ""
    THEN Inspected(NilValue, "missing required chart version argument.", dirs, mk)
    ELSE LET fetched == fetchOCI(dirs, mk + 1, fails)
             mkAfter == IF fails.mkdirTemp THEN mk ELSE mk + 1
         IN IF fetched.err # "" THEN Inspected(NilValue, fetched.err, fetched.dirs, mkAfter)
            ELSE IF fails.firstDir
            THEN Inspected(NilValue, "expected a single directory",
                           fetched.dirs \ {fetched.untarDir}, mkAfter)
            ELSE IF fails.load
            THEN Inspected(NilValue, "chart load error",
                           fetched.dirs \ {fetched.untarDir}, mkAfter)
            ELSE Inspected([isNil |-> FALSE], "",
                           fetched.dirs \ {fetched.untarDir}, mkAfter)

\* No chart is inspected from an OCI registry.
InitInspectIdle ==
    /\ iopts = [chartVersion |-> "", registryClient |-> FALSE]
    /\ tempDirs = {}
    /\ made = 0
    /\ errors = << >>
    /\ ichart = NilValue
    /\ ipc = "idle"

\* The options of the caller; no temporary directory exists.
InitInspect ==
    /\ iopts \in [chartVersion : {"", "1.0.0"}, registryClient : BOOLEAN]
    /\ tempDirs = {}
    /\ made = 0
    /\ errors = << >>
    /\ ichart = NilValue
    /\ ipc = "run"

\* One call of Inspect with an OCI URL.
Inspect ==
    /\ ipc = "run"
    /\ Len(errors) < MaxInspections
    /\ \E fails \in Failures :
          LET r == InspectOCI(iopts, tempDirs, made, fails)
          IN /\ tempDirs' = r.dirs
             /\ made' = r.made
             /\ errors' = Append(errors, r.err)
             /\ ichart' = r.chart
    /\ UNCHANGED <<iopts, ipc>>

\* The reconciler over the full set of documents.
Init == InitDiff("Docs") /\ InitManifestIdle /\ InitCompareIdle /\ InitResourcesIdle
    /\ InitLocationIdle /\ InitVersionsIdle /\ InitChartIdle /\ InitOptionalIdle /\ InitTraceIdle /\ InitInspectIdle

\* The reconciler over the documents of one API group/version.
InitCore == InitDiff("CoreDocs") /\ InitManifestIdle /\ InitCompareIdle /\ InitResourcesIdle
    /\ InitLocationIdle /\ InitVersionsIdle /\ InitChartIdle /\ InitOptionalIdle /\ InitTraceIdle /\ InitInspectIdle

Next ==
    \/ AppendA /\ UNCHANGED notDiffVars
    \/ AppendB /\ UNCHANGED notDiffVars
    \/ DiffResources /\ UNCHANGED notDiffVars
    \/ resourcesDiff /\ UNCHANGED notDiffVars

Spec == Init /\ [][Next]_vars

SpecCore == InitCore /\ [][Next]_vars

\* The two reconcilers over slices of up to MaxDuplicates DuplicateDocs.
InitDuplicates == InitDiff("DuplicateDocs") /\ InitManifestIdle /\ InitCompareIdle /\ InitResourcesIdle
    /\ InitLocationIdle /\ InitVersionsIdle /\ InitChartIdle /\ InitOptionalIdle /\ InitTraceIdle /\ InitInspectIdle

SpecDuplicates == InitDuplicates /\ [][Next]_vars

\* The manifest decoder alone: no reconciler call is made.
InitManifest == InitDiff("none") /\ InitManifestIdle /\ InitCompareIdle /\ InitResourcesIdle
    /\ InitLocationIdle /\ InitVersionsIdle /\ InitChartIdle /\ InitOptionalIdle /\ InitTraceIdle /\ InitInspectIdle

NextManifest ==
    \/ AppendDocument /\ UNCHANGED notManifestVars
    \/ ResourcesFromManifestCall /\ UNCHANGED notManifestVars
    \/ ResourcesFromManifestStep /\ UNCHANGED notManifestVars

SpecManifest == InitManifest /\ [][NextManifest]_vars

\* The comparison of two documents and the formatting of its report.
InitCompareOnly ==
    InitDiff("none") /\ InitManifestIdle /\ InitCompare /\ InitResourcesIdle
    /\ InitLocationIdle /\ InitVersionsIdle /\ InitChartIdle /\ InitOptionalIdle /\ InitTraceIdle /\ InitInspectIdle

NextCompare ==
    \/ NewCall /\ UNCHANGED notCompareVars
    \/ String /\ UNCHANGED notCompareVars

SpecCompare == InitCompareOnly /\ [][NextCompare]_vars

\* Chart.Resources on a rendered chart.
InitResourcesOnly ==
    InitDiff("none") /\ InitManifestIdle /\ InitCompareIdle /\ InitResources
    /\ InitLocationIdle /\ InitVersionsIdle /\ InitChartIdle /\ InitOptionalIdle /\ InitTraceIdle /\ InitInspectIdle

NextResources == Resources /\ UNCHANGED notResourcesVars

SpecResources == InitResourcesOnly /\ [][NextResources]_vars

\* ChartLocationFromURL and the accessors of the location.
InitLocationOnly ==
    InitDiff("none") /\ InitManifestIdle /\ InitCompareIdle /\ InitResourcesIdle
    /\ InitLocation /\ InitVersionsIdle /\ InitChartIdle /\ InitOptionalIdle /\ InitTraceIdle /\ InitInspectIdle

NextLocation ==
    \/ ChartLocationFromURLCall /\ UNCHANGED notLocationVars
    \/ OCIParts /\ UNCHANGED notLocationVars

SpecLocation == InitLocationOnly /\ [][NextLocation]_vars

\* The lookup of chart versions in an OCI or Helm repository.
InitVersionsOnly ==
    InitDiff("none") /\ InitManifestIdle /\ InitCompareIdle /\ InitResourcesIdle
    /\ InitLocationIdle /\ InitVersions /\ InitChartIdle /\ InitOptionalIdle /\ InitTraceIdle /\ InitInspectIdle

NextVersions ==
    \/ ChartVersionsCall /\ UNCHANGED notVersionsVars
    \/ ChartVersionsFromOCIRepository /\ UNCHANGED notVersionsVars
    \/ ChartVersionsFromHelmRepository /\ UNCHANGED notVersionsVars

SpecVersions == InitVersionsOnly /\ [][NextVersions]_vars

\* The rendering of a chart by the calls of Chart.Resources.
InitChartOnly ==
    InitDiff("none") /\ InitManifestIdle /\ InitCompareIdle /\ InitResourcesIdle
    /\ InitLocationIdle /\ InitVersionsIdle /\ InitChart /\ InitOptionalIdle /\ InitTraceIdle /\ InitInspectIdle

NextChart == ChartResources /\ UNCHANGED notChartVars

SpecChart == InitChartOnly /\ [][NextChart]_vars

\* The optional resources of a chart with a values schema.
InitOptionalOnly ==
    InitDiff("none") /\ InitManifestIdle /\ InitCompareIdle /\ InitResourcesIdle
    /\ InitLocationIdle /\ InitVersionsIdle /\ InitChartIdle /\ InitOptional /\ InitTraceIdle /\ InitInspectIdle

NextOptional ==
    \/ AddProperty /\ UNCHANGED notOptionalVars
    \/ OptionalResources /\ UNCHANGED notOptionalVars

SpecOptional == InitOptionalOnly /\ [][NextOptional]_vars

\* The debug traces of the contexts of one run.
InitTraceOnly ==
    InitDiff("none") /\ InitManifestIdle /\ InitCompareIdle /\ InitResourcesIdle
    /\ InitLocationIdle /\ InitVersionsIdle /\ InitChartIdle /\ InitOptionalIdle
    /\ InitTrace /\ InitInspectIdle

NextTrace ==
    \/ PushTrace /\ UNCHANGED notTraceVars
    \/ PopTrace /\ UNCHANGED notTraceVars
    \/ Printf /\ UNCHANGED notTraceVars
    \/ Println /\ UNCHANGED notTraceVars

SpecTrace == InitTraceOnly /\ [][NextTrace]_vars

\* The inspections of charts of an OCI registry.
InitInspectOnly ==
    InitDiff("none") /\ InitManifestIdle /\ InitCompareIdle /\ InitResourcesIdle
    /\ InitLocationIdle /\ InitVersionsIdle /\ InitChartIdle /\ InitOptionalIdle
    /\ InitTraceIdle /\ InitInspect

NextInspect == Inspect /\ UNCHANGED notInspectVars

SpecInspect == InitInspectOnly /\ [][NextInspect]_vars

(***************************************************************************)
(* Vocabulary of the properties.                                           *)
(***************************************************************************)
\* The identity of a document: (group, version, kind, name).
Identity(d) == <<d.group, d.version, d.kind, d.name>>

\* The full resource name of an identity: <group>/<version>/<Kind>/<name>,
\* without the group when it is empty.
FullName(id) ==
    IF id[1] = ""
    THEN id[2] \o "/" \o id[3] \o "/" \o id[4]
    ELSE id[1] \o "/" \o id[2] \o "/" \o id[3] \o "/" \o id[4]

\* The document a pointer refers to (after the call).
DocAt(ref) == IF ref.side = "a" THEN a[ref.idx] ELSE b[ref.idx]

Range(s) == { s[i] : i \in DOMAIN s }

\* The identities of the documents a bucket points to.
IdsOf(bucket) == { Identity(DocAt(r)) : r \in Range(bucket) }

\* The normalized identities occurring in A and in B.
IdsA == { Identity(a[i]) : i \in DOMAIN a }
IdsB == { Identity(b[i]) : i \in DOMAIN b }

\* A reconciler call has returned a result (a nil error).
ReturnedDiff == pc = "done" /\ ~ret.isNil

(***************************************************************************)
(* C1.  Symmetry of classification.                                        *)
(***************************************************************************)
\* C1: in every returned result, an identity present in B but not in A is in
\* Added (and in neither Removed nor Changed), and an identity present in A
\* but not in B is in Removed (and in neither Added nor Changed); also when
\* B holds a group/version/kind that A does not hold at all.
C1_SymmetryOfClassification ==
    ReturnedDiff =>
        /\ \A id \in IdsB \ IdsA :
              /\ id \in IdsOf(ret.Added)
              /\ id \notin IdsOf(ret.Removed)
              /\ FullName(id) \notin DOMAIN ret.Changed
        /\ \A id \in IdsA \ IdsB :
              /\ id \in IdsOf(ret.Removed)
              /\ id \notin IdsOf(ret.Added)
              /\ FullName(id) \notin DOMAIN ret.Changed

(***************************************************************************)
(* C2.  Partition invariant.                                               *)
(***************************************************************************)
\* No two pointers of a bucket refer to documents of the same identity.
NoIdentityTwice(bucket) ==
    \A i, j \in DOMAIN bucket :
        i # j => Identity(DocAt(bucket[i])) # Identity(DocAt(bucket[j]))

\* The four buckets, as sets of full resource names, are pairwise disjoint
\* and their union is the set of identities occurring in A or B.
Partition ==
    LET added     == { FullName(id) : id \in IdsOf(ret.Added) }
        removed   == { FullName(id) : id \in IdsOf(ret.Removed) }
        unchanged == { FullName(id) : id \in IdsOf(ret.Unchanged) }
        changed   == DOMAIN ret.Changed
    IN /\ added \cap removed = {}
       /\ added \cap unchanged = {}
       /\ added \cap changed = {}
       /\ removed \cap unchanged = {}
       /\ removed \cap changed = {}
       /\ unchanged \cap changed = {}
       /\ added \cup removed \cup unchanged \cup changed
             = { FullName(id) : id \in IdsA \cup IdsB }
       /\ NoIdentityTwice(ret.Added)
       /\ NoIdentityTwice(ret.Removed)
       /\ NoIdentityTwice(ret.Unchanged)

\* C2: whenever the reconciler returns a result, every normalized identity of
\* A or B is in exactly one of Added, Removed, Unchanged and keys(Changed):
\* none is missing and none appears twice.
C2_PartitionInvariant == ReturnedDiff => Partition

\* The same for kube.DiffResources alone (it holds there).
PartitionOfDiffResources ==
    (ReturnedDiff /\ callee = "DiffResources") => Partition

(***************************************************************************)
(* C3.  Classification of the identities present in both sets.             *)
(***************************************************************************)
\* The identity id, held by a[i] and b[j], is classified by the comparison
\* of that pair: when the pair's diff is not empty it is the value of a
\* Changed entry (whatever the entry's key) and the identity is not in
\* Unchanged; when it is empty the A-side pointer is in Unchanged.
ClassifiedByComparison(id, i, j) ==
    LET report == CompareInputFiles(a[i], b[j])
    IN IF Len(report) > 0
       THEN /\ \E k \in DOMAIN ret.Changed : ret.Changed[k].Diffs = report
            /\ id \notin IdsOf(ret.Unchanged)
       ELSE /\ Ref("a", i) \in Range(ret.Unchanged)
            /\ Ref("b", j) \notin Range(ret.Unchanged)

ComparedPairs ==
    /\ \A id \in IdsA \cap IdsB :
          \E i \in DOMAIN a, j \in DOMAIN b :
             /\ Identity(a[i]) = id
             /\ Identity(b[j]) = id
             /\ ClassifiedByComparison(id, i, j)
    /\ \A k \in DOMAIN ret.Changed : Len(ret.Changed[k].Diffs) > 0

\* C3: in every returned result, each identity present in both A and B is in
\* Changed exactly when the comparison of its pair has a difference record
\* and in Unchanged, as the A-side document, exactly when it has none; every
\* value stored in Changed is a non-empty diff.
C3_ChangedIffDiffNotEmpty == ReturnedDiff => ComparedPairs

\* The same for kube.DiffResources alone (it holds there).
ComparedPairsOfDiffResources ==
    (ReturnedDiff /\ callee = "DiffResources") => ComparedPairs

(***************************************************************************)
(* C4.  Matching by the full identity tuple.                               *)
(***************************************************************************)
\* a[i] and b[j] share kind and name and differ in API group or version.
SameKindAndNameOnly(i, j) ==
    /\ a[i].kind = b[j].kind
    /\ a[i].name = b[j].name
    /\ (a[i].group # b[j].group \/ a[i].version # b[j].version)

\* C4: in every returned result, two documents that share kind and name but
\* differ in API group or version are not compared with each other (no
\* Changed entry holds their diff); the A-side identity, when B does not hold
\* it, is in Removed and the B-side identity, when A does not hold it, is in
\* Added.  Documents that differ in namespace only are one identity: it is
\* in neither Added nor Removed.
C4_MatchedByFullIdentity ==
    ReturnedDiff =>
        /\ \A i \in DOMAIN a, j \in DOMAIN b :
              SameKindAndNameOnly(i, j) =>
                 /\ \A k \in DOMAIN ret.Changed :
                       ret.Changed[k].Diffs # CompareInputFiles(a[i], b[j])
                 /\ Identity(a[i]) \notin IdsB =>
                       Identity(a[i]) \in IdsOf(ret.Removed)
                 /\ Identity(b[j]) \notin IdsA =>
                       Identity(b[j]) \in IdsOf(ret.Added)
        /\ \A id \in IdsA \cap IdsB :
              id \notin IdsOf(ret.Added) \cup IdsOf(ret.Removed)

\* The part of C4 that kube.DiffResources keeps: it never compares two
\* documents of different group or version, and reports neither side of an
\* identity held by both sets as Added or Removed.
FullIdentityOfDiffResources ==
    (ReturnedDiff /\ callee = "DiffResources") =>
        /\ \A i \in DOMAIN a, j \in DOMAIN b :
              SameKindAndNameOnly(i, j) =>
                 /\ \A k \in DOMAIN ret.Changed :
                       ret.Changed[k].Diffs # CompareInputFiles(a[i], b[j])
                 /\ Identity(a[i]) \notin IdsB =>
                       Identity(a[i]) \in IdsOf(ret.Removed)
        /\ \A id \in IdsA \cap IdsB :
              id \notin IdsOf(ret.Added) \cup IdsOf(ret.Removed)

(***************************************************************************)
(* C5.  The keys of Changed.                                               *)
(***************************************************************************)
\* C5: in every returned result, every key of Changed is the full resource
\* name of an identity held by both sets, and Changed has as many entries as
\* there are identities, held by both sets, whose documents differ.
KeysOfChanged ==
    /\ \A k \in DOMAIN ret.Changed :
          \E id \in IdsA \cap IdsB : k = FullName(id)
    /\ Cardinality(DOMAIN ret.Changed) =
          Cardinality({ id \in IdsA \cap IdsB :
                          id \notin IdsOf(ret.Unchanged) })

C5_ChangedKeyedByFullName == ReturnedDiff => KeysOfChanged

\* The same for kube.DiffResources alone (it holds there).
KeysOfChangedOfDiffResources ==
    (ReturnedDiff /\ callee = "DiffResources") => KeysOfChanged

(***************************************************************************)
(* C6.  Identity normalization.                                            *)
(***************************************************************************)
\* The reconciler has run its normalization over the documents of A / of B
\* (resourcesDiff returns before it when chart.Resources fails).
NormalizedA == pc = "done" /\ err # "failed to get resources from chart A"
NormalizedB ==
    /\ pc = "done"
    /\ err # "failed to get resources from chart A"
    /\ err # "failed to get resources from chart B"

\* after is before without a leading "kube-inspect-", and before itself when
\* before does not start with it.
NameNormalized(before, after) ==
    /\ (Len(before) >= 13 /\ SubSeq(before, 1, 13) = "kube-inspect-")
          => "kube-inspect-" \o after = before
    /\ ~(Len(before) >= 13 /\ SubSeq(before, 1, 13) = "kube-inspect-")
          => after = before
    /\ before = "kube-inspect-foo" => after = "foo"
    /\ before = "cert-kube-inspect-foo" => after = "cert-kube-inspect-foo"
    /\ before = "foo" => after = "foo"

\* inA[i] and inB[j] are of one group, version and kind, and one's name is
\* the other's with the prefix put before it.
SameButForPrefix(i, j) ==
    /\ inA[i].group = inB[j].group
    /\ inA[i].version = inB[j].version
    /\ inA[i].kind = inB[j].kind
    /\ \/ inA[i].name = "kube-inspect-" \o inB[j].name
       \/ inB[j].name = "kube-inspect-" \o inA[i].name

\* C6: after normalization every document's name is its name as passed
\* without a leading "kube-inspect-" (a name that has the prefix elsewhere,
\* or not at all, is as passed), and in a returned result a prefixed
\* document of one set and its unprefixed namesake of the other are one
\* identity, in neither Added nor Removed.
C6_PrefixStrippedAtStartOnly ==
    /\ NormalizedA =>
          /\ Len(a) = Len(inA)
          /\ \A i \in DOMAIN a : NameNormalized(inA[i].name, a[i].name)
    /\ NormalizedB =>
          /\ Len(b) = Len(inB)
          /\ \A j \in DOMAIN b : NameNormalized(inB[j].name, b[j].name)
    /\ ReturnedDiff =>
          \A i \in DOMAIN a, j \in DOMAIN b :
             SameButForPrefix(i, j) =>
                /\ Identity(a[i]) = Identity(b[j])
                /\ Identity(a[i]) \notin IdsOf(ret.Added) \cup IdsOf(ret.Removed)

\* A returned result for A = [kube-inspect-foo, cert-kube-inspect-foo] and a
\* B that holds foo: the first was renamed foo and is Unchanged, the second
\* kept its name and is Removed.
C6_Witness ==
    /\ ReturnedDiff
    /\ Len(inA) = 2
    /\ inA[1].name = "kube-inspect-foo" /\ a[1].name = "foo"
    /\ inA[2].name = "cert-kube-inspect-foo" /\ a[2].name = "cert-kube-inspect-foo"
    /\ \E j \in DOMAIN inB : inB[j].name = "foo" /\ SameButForPrefix(1, j)
    /\ Ref("a", 1) \in Range(ret.Unchanged)
    /\ Ref("a", 2) \in Range(ret.Removed)

(***************************************************************************)
(* C7.  Frame: what a call changes in its inputs.                          *)
(***************************************************************************)
\* The slice after the call has the length and order of the slice as passed,
\* each document differs from the one passed in its name at most, and a name
\* differs only where the name passed starts with "kube-inspect-".
OnlyPrefixedNamesChanged(before, after) ==
    /\ Len(after) = Len(before)
    /\ \A i \in DOMAIN before :
          /\ [after[i] EXCEPT !.name = before[i].name] = before[i]
          /\ after[i].name # before[i].name =>
                (Len(before[i].name) >= 13
                    /\ SubSeq(before[i].name, 1, 13) = "kube-inspect-")

\* C7: after a call, whether it returned a result or an error, both input
\* slices are as passed except for the names of the documents whose name
\* started with the prefix.
C7_InputsUnchangedButNames ==
    pc = "done" =>
        /\ OnlyPrefixedNamesChanged(inA, a)
        /\ OnlyPrefixedNamesChanged(inB, b)

\* A call that returned an error after it had renamed a document of A, whose
\* second document it left as passed.
C7_Witness ==
    /\ pc = "done"
    /\ callee = "DiffResources"
    /\ err # ""
    /\ ret.isNil
    /\ Len(inA) = 2
    /\ inA[1].name = "kube-inspect-foo" /\ a[1].name = "foo"
    /\ a[2] = inA[2]

(***************************************************************************)
(* C8.  A comparator failure.                                              *)
(***************************************************************************)
\* No later document of the slice has the kind and name of s[i]: s[i] is the
\* document its identity's map entry points to.
LastOfItsName(s, i) ==
    \A k \in DOMAIN s :
        k > i => ~(s[k].kind = s[i].kind /\ s[k].name = s[i].name)

\* No later document of the slice has the identity of s[i].
LastOfItsIdentity(s, i) ==
    \A k \in DOMAIN s : k > i => Identity(s[k]) # Identity(s[i])

\* DiffResources, whose map is keyed by the identity, compares (a[i], b[j])
\* and the comparator fails on it.
FailingPairOfDiffResources(i, j) ==
    /\ Identity(a[i]) = Identity(b[j])
    /\ LastOfItsIdentity(a, i)
    /\ LastOfItsIdentity(b, j)
    /\ (a[i].malformed \/ b[j].malformed)

\* The pair (a[i], b[j]) is a pair either reconciler compares, and the
\* comparator fails on it.
FailingPair(i, j) ==
    /\ Identity(a[i]) = Identity(b[j])
    /\ LastOfItsName(a, i)
    /\ LastOfItsName(b, j)
    /\ (a[i].malformed \/ b[j].malformed)

\* The reconciler reached its comparisons and one of them failed.
ComparatorFailed ==
    /\ NormalizedB
    /\ \E i \in DOMAIN a, j \in DOMAIN b : FailingPair(i, j)

\* An identity is in one of the buckets of the result.
Classified(id) ==
    \/ id \in IdsOf(ret.Added)
    \/ id \in IdsOf(ret.Removed)
    \/ id \in IdsOf(ret.Unchanged)
    \/ \E k \in DOMAIN ret.Changed : k = FullName(id) \/ k = id[4]

\* C8 as claimed: when the comparator fails for one pair the reconciliation
\* is not aborted; a result is returned in which the failing identity is in
\* no bucket and every other identity is classified, with the failure
\* reported as an error.
C8_ReconciliationNotAborted ==
    ComparatorFailed =>
        /\ ~ret.isNil
        /\ err # ""
        /\ \A i \in DOMAIN a, j \in DOMAIN b :
              FailingPair(i, j) => ~Classified(Identity(a[i]))
        /\ \A id \in IdsA \cup IdsB :
              (\A i \in DOMAIN a, j \in DOMAIN b :
                  FailingPair(i, j) => Identity(a[i]) # id)
              => Classified(id)

\* C8 as amended: when the comparator fails for one pair the whole
\* reconciliation is aborted; the call returns a nil result and the
\* comparator's error (wrapped), so neither the failing identity nor any
\* other is classified.  A nil result always comes with an error and a
\* result with none, and DiffResources returns an error only for a failed
\* comparison.
C8_ReconciliationAborted ==
    pc = "done" =>
        /\ ComparatorFailed => (ret.isNil /\ err # "")
        /\ ret.isNil <=> err # ""
        /\ (callee = "DiffResources" /\ err # "") =>
              /\ \E i \in DOMAIN a, j \in DOMAIN b :
                    FailingPairOfDiffResources(i, j)
              /\ err = "failed to get dyff report: failed to marshal resource A"
        /\ (callee = "DiffResources" /\ err = "") =>
              ~\E i \in DOMAIN a, j \in DOMAIN b :
                    FailingPairOfDiffResources(i, j)

\* DiffResources returned nil and an error for an A of two identities, one
\* of which it could not compare with its B document; the other is
\* classified nowhere.
C8_Witness ==
    /\ pc = "done"
    /\ callee = "DiffResources"
    /\ ComparatorFailed
    /\ ret.isNil
    /\ err # ""
    /\ Len(a) = 2
    /\ Identity(a[1]) # Identity(a[2])
    /\ \E j \in DOMAIN b : FailingPair(1, j)
    /\ ~a[2].malformed

(***************************************************************************)
(* C9.  Two documents of one identity in one set.                          *)
(***************************************************************************)
\* A later document of the slice has the identity of s[i].
Overwritten(s, i) ==
    \E k \in DOMAIN s : k > i /\ Identity(s[k]) = Identity(s[i])

\* The pointers of the three slices of the result.
Pointers == Range(ret.Added) \cup Range(ret.Removed) \cup Range(ret.Unchanged)

\* s[i] is the document the map of the called reconciler keeps for its key:
\* the last of its identity for DiffResources, the last of its kind and
\* name for resourcesDiff.
Kept(s, i) ==
    IF callee = "DiffResources" THEN LastOfItsIdentity(s, i) ELSE LastOfItsName(s, i)

\* What the two maps do keep: in every returned result, a document followed
\* in its slice by another of the same normalized identity is pointed to by
\* none of Added, Removed and Unchanged, and the documents the maps keep are
\* the ones classified: with A's kept document and B's kept document of one
\* identity, the A-side pointer is Unchanged exactly when those two do not
\* differ, and otherwise Changed holds a report (for DiffResources their
\* diff, under the identity's full name); a kept document whose kind and
\* name the other set does not hold is Removed (of A) or Added or Removed
\* (of B).
LastWriteWinsOfKeptDocuments ==
    ReturnedDiff =>
        /\ \A i \in DOMAIN a : Overwritten(a, i) => Ref("a", i) \notin Pointers
        /\ \A j \in DOMAIN b : Overwritten(b, j) => Ref("b", j) \notin Pointers
        /\ \A i \in DOMAIN a, j \in DOMAIN b :
              (Identity(a[i]) = Identity(b[j]) /\ Kept(a, i) /\ Kept(b, j)) =>
                 LET report == CompareInputFiles(a[i], b[j])
                 IN IF Len(report) = 0
                    THEN Ref("a", i) \in Range(ret.Unchanged)
                    ELSE /\ Ref("a", i) \notin Pointers
                         /\ DOMAIN ret.Changed # {}
                         /\ callee = "DiffResources" =>
                               /\ FullName(Identity(a[i])) \in DOMAIN ret.Changed
                               /\ ret.Changed[FullName(Identity(a[i]))].Diffs = report
        /\ \A i \in DOMAIN a :
              (Kept(a, i) /\ \A j \in DOMAIN b :
                                ~(b[j].kind = a[i].kind /\ b[j].name = a[i].name))
              => Ref("a", i) \in Range(ret.Removed)
        /\ \A j \in DOMAIN b :
              (Kept(b, j) /\ \A i \in DOMAIN a :
                                ~(b[j].kind = a[i].kind /\ b[j].name = a[i].name))
              => Ref("b", j) \in Range(ret.Added) \cup Range(ret.Removed)

\* The later document s[k] of a duplicated identity is compared or
\* classified: a slice points to it, or Changed holds its report against a
\* document of the other slice, or (for B's) it does not differ from an
\* Unchanged document of A.
LaterClassified(side, k) ==
    \/ Ref(side, k) \in Pointers
    \/ /\ side = "a"
       /\ \E j \in DOMAIN b, key \in DOMAIN ret.Changed :
             /\ CompareInputFiles(a[k], b[j]) # << >>
             /\ ret.Changed[key].Diffs = CompareInputFiles(a[k], b[j])
    \/ /\ side = "b"
       /\ \E i \in DOMAIN a :
             \/ /\ Ref("a", i) \in Range(ret.Unchanged)
                /\ CompareInputFiles(a[i], b[k]) = << >>
             \/ \E key \in DOMAIN ret.Changed :
                   /\ CompareInputFiles(a[i], b[k]) # << >>
                   /\ ret.Changed[key].Diffs = CompareInputFiles(a[i], b[k])

\* C9: in every returned result, when a slice holds two documents of one
\* normalized identity (kube-inspect-foo and foo of one kind included), the
\* last document of that identity is the one compared and classified, and
\* every earlier one appears in none of Added, Removed, Changed, Unchanged.
C9_LastWriteWins ==
    ReturnedDiff =>
        /\ \A i \in DOMAIN a, k \in DOMAIN a :
              (i < k /\ Identity(a[i]) = Identity(a[k]) /\ LastOfItsIdentity(a, k))
              => Ref("a", i) \notin Pointers /\ LaterClassified("a", k)
        /\ \A i \in DOMAIN b, k \in DOMAIN b :
              (i < k /\ Identity(b[i]) = Identity(b[k]) /\ LastOfItsIdentity(b, k))
              => Ref("b", i) \notin Pointers /\ LaterClassified("b", k)

\* DiffResources alone keeps and classifies the later document.
LastWriteWinsOfDiffResources ==
    callee = "DiffResources" => C9_LastWriteWins

(***************************************************************************)
(* C10.  Decoding a multi-document manifest.                               *)
(***************************************************************************)
\* The documents of the buffer that are not empty.
NonEmptyDocuments == { i \in DOMAIN manifest : manifest[i] # "empty" }

\* The documents of the buffer the decoder or the parser rejects.
MalformedDocuments ==
    { i \in DOMAIN manifest : manifest[i] \in {"syntax", "nokind", "badname"} }

\* C10: when ResourcesFromManifest has returned, a buffer holding a
\* malformed document gave an error and no resource list, and a nil error
\* comes with a list that represents every non-empty document of the buffer.
C10_NoDocumentSilentlyDropped ==
    mpc = "done" =>
        /\ MalformedDocuments # {} => (merr # "" /\ mret.isNil)
        /\ merr = "" => (~mret.isNil /\ Range(mret.items) = NonEmptyDocuments)

\* The errors of parser.Decode and of the name accessor are returned, with
\* no list: only a document the stream decoder rejects is passed over.
ParserErrorsReturned ==
    mpc = "done" =>
        /\ (\E i \in MalformedDocuments :
               /\ manifest[i] # "syntax"
               /\ \A k \in MalformedDocuments : i <= k)
           => (merr # "" /\ mret.isNil)
        /\ merr = "" =>
              /\ ~mret.isNil
              /\ \A i \in NonEmptyDocuments :
                    (\A k \in 1..i : manifest[k] # "syntax")
                    => i \in Range(mret.items)

(***************************************************************************)
(* C11.  A well-formed manifest.                                           *)
(***************************************************************************)
\* Every document of the buffer is a resource or is empty.
WellFormed == MalformedDocuments = {}

\* The sequence s holds each member of the set S once, in increasing order.
InOrderOf(s, S) ==
    /\ Range(s) = S
    /\ \A i \in DOMAIN s, k \in DOMAIN s : i < k => s[i] < s[k]

\* C11: when ResourcesFromManifest has returned for a well-formed buffer,
\* the error is nil and the list holds one resource for each non-empty
\* document, in the order of the documents; empty documents give no entry
\* and the documents after them are decoded.
C11_OneResourcePerDocumentInOrder ==
    (mpc = "done" /\ WellFormed) =>
        /\ merr = ""
        /\ ~mret.isNil
        /\ InOrderOf(mret.items, NonEmptyDocuments)

\* A resource, an empty document and a resource: two entries, 1 then 3.
C11_Witness ==
    /\ mpc = "done"
    /\ manifest = <<"resource", "empty", "resource">>
    /\ merr = ""
    /\ mret = [isNil |-> FALSE, items |-> <<1, 3>>]

(***************************************************************************)
(* C12.  Reflexivity.                                                      *)
(***************************************************************************)
\* DiffResources has returned from a call whose B was a copy of its A.
ReflexiveCall == pc = "done" /\ callee = "DiffResources" /\ inA = inB

\* Nothing is Added, Removed or Changed.
NoDifference ==
    /\ ~ret.isNil
    /\ err = ""
    /\ ret.Added = << >>
    /\ ret.Removed = << >>
    /\ DOMAIN ret.Changed = {}

Permuted(s, t) ==
    /\ s # t
    /\ Len(s) = Len(t)
    /\ \A v \in Range(s) \cup Range(t) : Count(s, v) = Count(t, v)

\* treeB is treeA with the entries of its list permuted.
ListPermuted ==
    /\ DOMAIN treeA = DOMAIN treeB
    /\ "args" \in DOMAIN treeA
    /\ Permuted(treeA["args"].items, treeB["args"].items)
    /\ \A k \in DOMAIN treeA \ {"args"} : treeA[k] = treeB[k]

\* The ORDERCHANGE details of the returned Diff.
OrderChanges ==
    { <<i, k>> \in (DOMAIN cdiff.Diffs) \X (1..3) :
        /\ k \in DOMAIN cdiff.Diffs[i].details
        /\ cdiff.Diffs[i].details[k].kind = "ORDERCHANGE" }

\* C13: when b is a with one list's entries permuted, the comparison the
\* caller asked to ignore order changes returns an empty diff, and the
\* comparison asked not to ignore them returns exactly one order change.
C13_OrderInsensitivityToggle ==
    (cpc # "input" /\ ListPermuted) =>
        IF copt.ignoreOrderChanges
        THEN cdiff.Diffs = << >>
        ELSE Len(cdiff.Diffs) = 1 /\ Cardinality(OrderChanges) = 1

\* What New does: the permuted list is one order change whatever the caller
\* asked for.
OrderChangeAlwaysReported ==
    (cpc # "input" /\ ListPermuted) =>
        Len(cdiff.Diffs) = 1 /\ Cardinality(OrderChanges) = 1

(***************************************************************************)
(* C14.  Scalars of different types at one path.                           *)
(***************************************************************************)
\* Both trees hold `port`, with scalars of different types.
TypeChanged ==
    /\ "port" \in DOMAIN treeA \cap DOMAIN treeB
    /\ treeA["port"].tag # treeB["port"].tag

\* The Diffs of the returned report whose path is `port`.
DiffsAtPort == { i \in DOMAIN cdiff.Diffs : cdiff.Diffs[i].path = "port" }

C15_NoProcessWideStateWritten ==
    ColorSetting = "AUTO" /\ TrueColorSetting = "AUTO"

\* The comparison itself writes no process-wide setting.
NewWritesNoSetting ==
    cpc \in {"input", "compared"} => C15_NoProcessWideStateWritten

(***************************************************************************)
(* C16.  Filters of Chart.Resources.                                       *)
(***************************************************************************)
\* The resources of s that satisfy every filter, in the order of s.
Filtered(s, fs) ==
    EntriesAt(s, { i \in DOMAIN s : \A k \in DOMAIN fs : Matches(fs[k], s[i]) }, 1)

\* C16: a successful Chart.Resources returns exactly the rendered resources
\* that satisfy every supplied filter, in rendering order (all of them with
\* no filter), WithName comparing the rendered name and WithKind the kind.
C16_ResourcesFiltered ==
    (fpc = "done" /\ ferr = "") =>
        /\ ~fret.isNil
        /\ fret.items = Filtered(rendered, filters)

\* What the method does: every rendered resource is returned, in rendering
\* order, whatever the filters.
ResourcesReturnsAllRendered ==
    (fpc = "done" /\ ferr = "") => (~fret.isNil /\ fret.items = rendered)

(***************************************************************************)
(* C17.  The three kinds of ChartLocation.                                 *)
(***************************************************************************)
\* The index of the last "/" of s, 0 when it has none.
LastSlash(s) ==
    LET at == { i \in 1..Len(s) : SubSeq(s, i, i) = "/" }
    IN IF at = {} THEN 0 ELSE CHOOSE i \in at : \A k \in at : k <= i

\* How many of the three predicates hold of the location.
KindsOf(o) ==
    Cardinality({ k \in {"local", "oci", "helm"} :
                    \/ k = "local" /\ IsLocal(o)
                    \/ k = "oci" /\ IsOCI(o)
                    \/ k = "helm" /\ IsHelmRepository(o) })

\* C17: a location returned without error is of exactly one kind: local
\* only for a file:// URL, OCI only for an oci:// URL (the URL kept as it
\* is, Repository and Name empty), Helm repository only for an http(s) URL,
\* with Repository the URL up to its last "/" and Name what follows it.
C17_ExactlyOneKind ==
    (lpc # "input" /\ lerr = "") =>
        /\ ~loc.isNil
        /\ KindsOf(loc) = 1
        /\ HasPrefix(url, "file://") =>
              IsLocal(loc) /\ loc = ChartLocation(url, "", "")
        /\ HasPrefix(url, "oci://") =>
              IsOCI(loc) /\ loc = ChartLocation(url, "", "")
        /\ (HasPrefix(url, "https://") \/ HasPrefix(url, "http://")) =>
              /\ IsHelmRepository(loc)
              /\ loc.Repository = SubSeq(url, 1, LastSlash(url) - 1)
              /\ loc.Name = SubSeq(url, LastSlash(url) + 1, Len(url))
              /\ loc.Name # ""

\* https://quay.io/charts/cert-manager is a Helm repository location.
C17_Witness ==
    /\ lpc = "located"
    /\ url = "https://quay.io/charts/cert-manager"
    /\ loc = ChartLocation("", "https://quay.io/charts", "cert-manager")
    /\ IsHelmRepository(loc) /\ ~IsOCI(loc) /\ ~IsLocal(loc)

(***************************************************************************)
(* C18.  URLs that do not name a repository and a chart.                   *)
(***************************************************************************)
\* The non-empty path segments of the URL after its scheme.
SegmentsAfter(scheme) ==
    LET parts == Split(TrimPrefix(url, scheme), "/")
    IN EntriesAt(parts, { i \in DOMAIN parts : parts[i] # "" }, 1)

\* The URL names a repository and a chart: a file:// URL; an oci:// URL
\* with registry, namespace and chart; an http(s) URL with a host and a
\* chart name.
NamesRepositoryAndChart ==
    \/ HasPrefix(url, "file://")
    \/ HasPrefix(url, "oci://") /\ Len(SegmentsAfter("oci://")) >= 3
    \/ HasPrefix(url, "https://") /\ Len(SegmentsAfter("https://")) >= 2
    \/ HasPrefix(url, "http://") /\ Len(SegmentsAfter("http://")) >= 2

\* C18: for a URL that does not name both a repository and a chart (no
\* known scheme, an http(s) URL of a host only, an oci:// URL short of
\* registry, namespace and chart), ChartLocationFromURL returns no location
\* and an "invalid URL format" error.
C18_InvalidURLFormat ==
    (lpc # "input" /\ ~NamesRepositoryAndChart) =>
        /\ loc.isNil
        /\ HasPrefix(lerr, "invalid URL format")

\* A URL without a scheme is refused, and so is an http(s) URL that ends
\* with a slash.
UnknownSchemeRefused ==
    (lpc # "input" /\ (\A scheme \in Schemes \ {""} : ~HasPrefix(url, scheme))) =>
        /\ loc.isNil
        /\ HasPrefix(lerr, "invalid URL format")

(***************************************************************************)
(* C19.  The parts of an OCI location.                                     *)
(***************************************************************************)
\* The URL is oci://<registry>/<ns_1>/.../<ns_k>/<chart> with k >= 1, with
\* or without one trailing slash.
OCIWithNamespace ==
    /\ HasPrefix(url, "oci://")
    /\ LET parts == Split(TrimSuffix(TrimPrefix(url, "oci://"), "/"), "/")
       IN Len(parts) >= 3 /\ \A i \in DOMAIN parts : parts[i] # ""

\* C19: of an OCI location oci://<registry>/<ns_1>/.../<ns_k>/<chart>
\* (k >= 1, with or without a trailing slash) OCIRegistry is <registry>,
\* OCIRegistryAndNamespace is (<registry>, <ns_1>/.../<ns_k>) and the
\* repository path is the URL without oci:// and without the trailing
\* slash, which registry, namespace and chart joined with "/" give back;
\* of a location that is not OCI all three are empty.
C19_OCIParts ==
    lpc = "read" =>
        /\ OCIWithNamespace =>
              LET segs == SegmentsAfter("oci://")
                  n == Len(segs)
              IN /\ oci.registry = segs[1]
                 /\ oci.registryAndNamespace =
                       <<segs[1], StringsJoin(SubSeq(segs, 2, n - 1), "/")>>
                 /\ oci.repository = StringsJoin(segs, "/")
                 /\ ~HasPrefix(oci.repository, "oci://")
                 /\ ~HasSuffix(oci.repository, "/")
                 /\ oci.registryAndNamespace[1] \o "/" \o oci.registryAndNamespace[2]
                       \o "/" \o segs[n] = oci.repository
        /\ ~HasPrefix(url, "oci://") =>
              /\ oci.registry = ""
              /\ oci.registryAndNamespace = <<"", "">>
              /\ oci.repository = ""

\* oci://quay.io/charts/charts/cert-manager/ has a namespace of two parts.
C19_Witness ==
    /\ lpc = "read"
    /\ url = "oci://quay.io/charts/charts/cert-manager/"
    /\ oci.registry = "quay.io"
    /\ oci.registryAndNamespace = <<"quay.io", "charts/charts">>
    /\ oci.repository = "quay.io/charts/charts/cert-manager"

\* A file:// location has no OCI parts.
C19_WitnessNotOCI ==
    /\ lpc = "read"
    /\ url = "file://quay.io/charts"
    /\ oci.repository = ""

(***************************************************************************)
(* C20.  The limit of the chart versions returned.                         *)
(***************************************************************************)
\* The limit the caller configured.
ConfiguredLimit ==
    IF vopts.withLimit THEN vopts.limit ELSE DefaultChartVersionsLimit

\* The tag is a version (with or without "v") that passes every filter.
MatchesAll(tag) ==
    LET ver == TrimPrefix(tag, "v")
    IN /\ StrictNewVersion(ver)
       /\ vopts.constraint => MatchingConstraint([Version |-> ver])
       /\ vopts.filter => NotSecondMajor([Version |-> ver])

\* The versions of the repository that match, in its order, every tag with
\* or without "v".
MatchingEntries ==
    LET at == { i \in DOMAIN vtags : MatchesAll(vtags[i]) }
        kept == EntriesAt(vtags, at, 1)
    IN [ i \in DOMAIN kept |-> TrimPrefix(kept[i], "v") ]

\* The versions that match, each once: a version seen before is a
\* duplicate.
MatchingVersions ==
    LET m == MatchingEntries
    IN EntriesAt(m, { i \in DOMAIN m : \A k \in 1..(i - 1) : m[k] # m[i] }, 1)

\* The first n entries of s, all of them when there are fewer.
FirstN(s, n) == SubSeq(s, 1, IF n < Len(s) THEN n ELSE Len(s))

\* The versions of the returned slice.
ReturnedVersions == [ i \in DOMAIN vret.items |-> vret.items[i].Version ]

\* C20: a successful lookup returns no more versions than the configured
\* limit (DefaultChartVersionsLimit when none is set), whatever the pages;
\* invalid, filtered-out and duplicate entries do not consume the limit:
\* the versions returned are the first `limit` matching versions, and
\* exactly `limit` are returned when that many matching versions exist.
C20_LimitOfMatchingVersions ==
    (vpc = "done" /\ verr = "") =>
        /\ Len(vret.items) <= ConfiguredLimit
        /\ Range(ReturnedVersions) = Range(FirstN(MatchingVersions, ConfiguredLimit))
        /\ Len(MatchingVersions) >= ConfiguredLimit =>
              Len(vret.items) = ConfiguredLimit

\* The OCI lookup returns the first `limit` matching versions, each once.
LimitOfOCIRepository ==
    (vpc = "done" /\ verr = "" /\ vsource = "oci") =>
        /\ Len(vret.items) <= ConfiguredLimit
        /\ ReturnedVersions = FirstN(MatchingVersions, ConfiguredLimit)

\* The Helm lookup returns the first `limit` matching entries of the
\* index, a version as often as the index holds it.
LimitOfHelmRepository ==
    (vpc = "done" /\ verr = "" /\ vsource = "helm") =>
        /\ Len(vret.items) <= ConfiguredLimit
        /\ ReturnedVersions = FirstN(MatchingEntries, ConfiguredLimit)

(***************************************************************************)
(* C21.  What a chart version lookup returns and what it reports.          *)
(***************************************************************************)

\* The "was not valid semver" message of the lookup for a tag or index
\* entry, the leading "v" removed.
NotValidSemver(tag) ==
    "version \"" \o TrimPrefix(tag, "v") \o "\" was not valid semver"
    \o (IF vsource = "oci" THEN "\n" ELSE ".")

\* The tags and index entries the lookup has gone past.
Visited == {vtags[i] : i \in 1..vpos}

\* The version satisfies every filter the caller supplied.
SatisfiesSuppliedFilters(cv) ==
    /\ vopts.constraint => MatchingConstraint(cv)
    /\ vopts.filter => NotSecondMajor(cv)

\* C21: every chart version returned is strict SemVer2, is a tag or index
\* entry of the repository less one leading "v", and satisfies every filter
\* supplied; every message collected is the "was not valid semver" message
\* of an invalid entry gone past, every invalid entry gone past before the
\* limit was reached has its message, no invalid entry is returned, and
\* the only error of the lookup is that of the repository, raised before
\* any entry is examined.
C21_ValidFilteredVersionsAndCollectedErrors ==
    /\ \A i \in DOMAIN out :
          /\ StrictNewVersion(out[i].Version)
          /\ \E t \in Visited : TrimPrefix(t, "v") = out[i].Version
          /\ SatisfiesSuppliedFilters(out[i])
    /\ \A i \in DOMAIN collected :
          \E t \in Visited :
              ~StrictNewVersion(TrimPrefix(t, "v")) /\ collected[i] = NotValidSemver(t)
    /\ \A t \in Visited :
          (~StrictNewVersion(TrimPrefix(t, "v")) /\ Len(out) < opts.limit)
              => \E i \in DOMAIN collected : collected[i] = NotValidSemver(t)
    /\ verr # "" => (vpos = 0 /\ collected = << >> /\ vret.isNil)
    /\ (vpc = "done" /\ verr = "") => (~vret.isNil /\ vret.items = out)

\* A lookup under both filters has returned a version, has rejected another
\* that one filter alone accepts, and has reported an invalid tag.
C21_Witness ==
    /\ vpc = "done" /\ verr = ""
    /\ vopts.constraint /\ vopts.filter
    /\ out # << >>
    /\ collected # << >>
    /\ \E t \in Visited : t = "2.0.0"

(***************************************************************************)
(* C25.  The OCI lookup returns each version once.                         *)
(***************************************************************************)

\* The place of the first tag of the repository that is the version, with
\* or without a leading "v".
FirstOccurrence(version) ==
    CHOOSE i \in DOMAIN vtags :
        /\ TrimPrefix(vtags[i], "v") = version
        /\ \A k \in 1..(i - 1) : TrimPrefix(vtags[k], "v") # version

\* The pages, numbered from 1, that hold a tag of the version.
PagesOf(version) ==
    { ((i - 1) \div pageSize) + 1 :
        i \in { k \in DOMAIN vtags : TrimPrefix(vtags[k], "v") = version } }

\* C25: the OCI lookup never holds two entries of the same Version, whether
\* the tags that differ by a leading "v" are on one page or on several,
\* and the entries are in the order of the first tags of their versions.
C25_OCIVersionsOnceInFirstOccurrenceOrder ==
    vsource = "oci" =>
        \A i, j \in DOMAIN out :
            i < j => /\ out[i].Version # out[j].Version
                     /\ FirstOccurrence(out[i].Version) < FirstOccurrence(out[j].Version)

\* An OCI lookup has returned two versions, the first of them tagged with
\* and without "v" on two pages, the other tag after the second version.
C25_Witness ==
    /\ vsource = "oci" /\ vpc = "done" /\ verr = ""
    /\ Len(vret.items) = 2
    /\ \E v \in Range(ReturnedVersions) :
          /\ Cardinality(PagesOf(v)) = 2
          /\ v = ReturnedVersions[1]
          /\ \E k \in DOMAIN vtags :
                /\ k > FirstOccurrence(ReturnedVersions[2])
                /\ TrimPrefix(vtags[k], "v") = v

(***************************************************************************)
(* C22.  The Kubernetes version of the installer.                          *)
(***************************************************************************)

\* The latest call of Chart.Resources went through autoAdjustKubeVersion.
AdjustmentMade == rpc \in {"returned", "panic"} /\ ~installer.isNil

\* The chart's constraint holds for the Helm SDK's default version.
DefaultSatisfies ==
    Check(NewConstraint(hc.KubeVersion), NewVersion(DefaultKubeVersion))

\* The version the installer was given.
InstallerVersion ==
    SemverNew(installer.KubeVersion.major, installer.KubeVersion.minor,
              installer.KubeVersion.patch)

\* The constraint is the operator op before one version.
HasForm(op) ==
    /\ Len(NewConstraint(hc.KubeVersion).constraints) = 1
    /\ NewConstraint(hc.KubeVersion).constraints[1].origfunc = op

\* The version X of a constraint of one of the four forms, and its minor
\* as a number.
Bound == NewConstraint(hc.KubeVersion).constraints[1].con
MinorOfBound == ParseUint(Split(NewConstraint(hc.KubeVersion).constraints[1].orig, ".")[2])

\* The installer was given a version that satisfies the constraint: the
\* one the form of the constraint calls for.
WorkableVersionSet ==
    /\ rpc = "returned"
    /\ ~installer.KubeVersion.isNil
    /\ Check(NewConstraint(hc.KubeVersion), InstallerVersion)
    /\ (HasForm(">=") \/ HasForm("<=")) => Equal(InstallerVersion, Bound)
    /\ HasForm(">") =>
          Equal(InstallerVersion, SemverNew(Bound.major, Uint64(MinorOfBound + 1), Bound.patch))
    /\ (HasForm("<") /\ MinorOfBound > 0) =>
          Equal(InstallerVersion, SemverNew(Bound.major, Uint64(MinorOfBound - 1), Bound.patch))

\* The call returned an error of autoAdjustKubeVersion.
AdjustmentRefused ==
    /\ rpc = "returned"
    /\ rerr \in {"improper constraint", "Invalid Semantic Version"}
    /\ installer.KubeVersion.isNil

\* C22: after autoAdjustKubeVersion, when the chart's constraint is empty
\* or holds for the default version of the Helm SDK the installer's
\* KubeVersion is untouched; otherwise an error was returned or the
\* installer's KubeVersion is a version that satisfies the constraint: X
\* for ">=X" and "<=X", X with minor+1 for ">X", X with minor-1 for "<X",
\* also when the minor of X is 0.
C22_WorkableKubeVersion ==
    AdjustmentMade =>
        IF hc.KubeVersion = "" \/ (NewConstraint(hc.KubeVersion).ok /\ DefaultSatisfies)
        THEN installer.KubeVersion.isNil /\ rpc = "returned"
        ELSE AdjustmentRefused \/ WorkableVersionSet

\* The same for the constraints of the four forms whose minor-1 exists,
\* the compound constraints and those that do not parse.
WorkableKubeVersionAboveMinorZero ==
    (/\ AdjustmentMade
     /\ \/ ~NewConstraint(hc.KubeVersion).ok
        \/ Len(NewConstraint(hc.KubeVersion).constraints) > 1
        \/ HasForm(">=") \/ HasForm("<=") \/ HasForm(">")
        \/ HasForm("<") /\ MinorOfBound > 0)
    => IF hc.KubeVersion = "" \/ (NewConstraint(hc.KubeVersion).ok /\ DefaultSatisfies)
       THEN installer.KubeVersion.isNil /\ rpc = "returned"
       ELSE AdjustmentRefused \/ WorkableVersionSet

(***************************************************************************)
(* C24.  A chart is rendered at most once.                                 *)
(***************************************************************************)

\* render, entered now, would get as far as installer.Run.
ReachesInstall ==
    /\ ~hc.isNil
    /\ autoAdjustKubeVersion(hc.KubeVersion).err = ""
    /\ ~autoAdjustKubeVersion(hc.KubeVersion).panic

\* One call of Chart.Resources on a chart that is rendered: no install is
\* run, rendered and the manifest stay, and the resources decoded from that
\* manifest are returned.
CallOnRenderedChart ==
    cRendered =>
        /\ cRendered'
        /\ cManifest' = cManifest
        /\ installs' = installs
        /\ rpc' = "returned"
        /\ rret' = ResourcesFromManifest(cManifest.docs).items
        /\ rerr' = ResourcesFromManifest(cManifest.docs).err

\* One call of Chart.Resources on a chart that is not rendered: the render
\* is attempted, an install is run whenever the chart and its kubeVersion
\* allow it, rendered is set only with that install done and its manifest
\* stored, and otherwise rendered and the manifest stay and the error is
\* returned with no resources.
CallOnUnrenderedChart ==
    ~cRendered =>
        /\ installs' = installs + (IF ReachesInstall THEN 1 ELSE 0)
        /\ IF cRendered'
           THEN /\ installs' = installs + 1
                /\ ~cManifest'.isNil
                /\ rpc' = "returned"
                /\ rret' = ResourcesFromManifest(cManifest'.docs).items
           ELSE /\ cManifest' = cManifest
                /\ \/ rpc' = "panic"
                   \/ rpc' = "returned" /\ rerr' # "" /\ rret'.isNil

\* C24: a chart is rendered at most once.  rendered implies that the
\* manifest is set; Chart.Resources renders only while rendered is false;
\* rendered becomes true only with the install done and the manifest
\* stored, after which every call runs no install and returns the resources
\* of the same manifest; a render that fails (nil chart, kubeVersion
\* error, install error) leaves rendered false and the manifest as it was
\* and returns the error, and the next call attempts the render again.
C24_RenderedAtMostOnce ==
    /\ [](cRendered => ~cManifest.isNil)
    /\ [][CallOnRenderedChart /\ CallOnUnrenderedChart]_vars

\* A render has failed at the install, the next call has rendered the
\* chart, and a third call has returned its resources with no install run.
C24_Witness ==
    /\ cRendered
    /\ ncalls = 3
    /\ installs = 2
    /\ rpc = "returned"
    /\ ~rret.isNil /\ rret.items # << >>

(***************************************************************************)
(* C23.  DefaultEnabled of an optional resource.                           *)
(***************************************************************************)

\* The path of a toggle: its ValueToggle split at the dots.
PathOf(r) == Split(r.ValueToggle, ".")

\* C23: every optional resource returned has DefaultEnabled true exactly
\* when the resource is enabled under the default values, that is when the
\* default value of its toggle is true.
C23_DefaultEnabledUnderDefaultValues ==
    (opc = "done" /\ ~ores.isNil) =>
        \A i \in DOMAIN ores.items :
            ores.items[i].DefaultEnabled <=> (schema[PathOf(ores.items[i])].Default = "true")

\* Every optional resource returned has DefaultEnabled true.
DefaultEnabledAlwaysTrue ==
    (opc = "done" /\ ~ores.isNil) =>
        \A i \in DOMAIN ores.items : ores.items[i].DefaultEnabled

(***************************************************************************)
(* C27.  The toggles OptionalResources finds.                              *)
(***************************************************************************)

\* The property at the path is named "create" or "enabled", in any case,
\* and boolean is its only declared type.
IsToggle(path) ==
    /\ ToLower(path[Len(path)]) \in {"create", "enabled"}
    /\ schema[path].Types = <<"boolean">>

\* No property above the path is a toggle.
BelowNoToggle(path) ==
    \A n \in 1..(Len(path) - 1) : ~IsToggle(SubSeq(path, 1, n))

\* The dotted paths of the toggles of the schema that are to be found.
ExpectedToggles ==
    { StringsJoin(path, ".") :
        path \in { q \in DOMAIN schema : IsToggle(q) /\ BelowNoToggle(q) } }

\* The slice returned holds one entry for each expected toggle and no
\* other.
OnePerToggle ==
    /\ ~ores.isNil
    /\ oerr = ""
    /\ { ores.items[i].ValueToggle : i \in DOMAIN ores.items } = ExpectedToggles
    /\ Len(ores.items) = Cardinality(ExpectedToggles)

\* The call returned no entry.
NoEntries == ores.isNil \/ ores.items = << >>

\* C27: a call of OptionalResources returns; with a schema that compiles
\* it returns one OptionalResource for every property, at any depth and
\* not below a toggle, that is named "create" or "enabled" in any case and
\* has boolean as its only declared type, its ValueToggle the dotted path,
\* and nothing for a property of another name or type; a nil chart or a
\* chart without schema gives no entries and no error.
C27_OneOptionalResourcePerToggle ==
    opc \in {"done", "panic"} =>
        /\ opc = "done"
        /\ IF oc = "schema" THEN (oerr = "schema error" /\ ores.isNil) \/ OnePerToggle
           ELSE NoEntries /\ oerr = ""

\* The same of the calls that return.
OnePerToggleWhenReturned ==
    opc = "done" =>
        IF oc = "schema" THEN (oerr = "schema error" /\ ores.isNil) \/ OnePerToggle
        ELSE NoEntries /\ oerr = ""

(***************************************************************************)
(* C28.  OptionalResources on every compiled schema.                       *)
(***************************************************************************)

\* C28: OptionalResources is total: whatever the properties of the schema,
\* one without declared type or with several among them, no call of
\* likelyResourceToggle fails.
C28_OptionalResourcesTotal == opc # "panic"

\* A call panics only on a schema with a property of no declared type that
\* the search comes to.
PanicOnlyWithoutDeclaredType ==
    opc = "panic" =>
        \E path \in DOMAIN schema : schema[path].Types = << >> /\ BelowNoToggle(path)

(***************************************************************************)
(* C26.  The discipline of the debug trace stack.                          *)
(***************************************************************************)

\* The traces a context is to hold by the calls that made it: those of the
\* caller's own context, one more for a PushTrace, one fewer for a PopTrace.
RECURSIVE TracesOf(_)
TracesOf(c) ==
    IF ctxs[c].made = "own" THEN SubSeq(OwnNames, 1, ctxs[c].len)
    ELSE IF ctxs[c].made = "push" THEN Append(TracesOf(ctxs[c].from), ctxs[c].name)
    ELSE SubSeq(TracesOf(ctxs[c].from), 1, Len(TracesOf(ctxs[c].from)) - 1)

\* The indentation of a line written for the context.
IndentOf(c) == Repeat(" ", Len(TracesOf(c)))

\* The line is the end line of the trace that made the context.
EndLineOfItsTrace(line) ==
    line.text = debugPrefix \o IndentOf(line.ctx) \o ctxs[line.ctx].name \o " (took 0s)\n"

\* C26: without debug writers PushTrace and PopTrace return the context
\* they were given and nothing is written.  With writers, the context
\* PushTrace returns holds the stack of its parent and the new name, and
\* the start line of that name is written; PopTrace on a context that
\* PushTrace returned writes the end line of the same name; and every
\* message of Printf and Println is indented by the number of traces on the
\* stack of its context.
C26_TraceStackDiscipline ==
    /\ ~ctxs[1].writers => (written = << >> /\ Len(ctxs) = 1 /\ tret \in {0, 1})
    /\ (tret # 0 /\ ctxs[tret].made = "push") =>
          traceStack(ctxs[tret], arrays)
             = Append(traceStack(ctxs[ctxs[tret].from], arrays), ctxs[tret].name)
    /\ \A i \in DOMAIN written :
          /\ written[i].call = "PushTrace" =>
                written[i].text = debugPrefix \o IndentOf(written[i].ctx)
                                  \o ctxs[written[i].ctx].name \o "\n"
          /\ (written[i].call = "PopTrace" /\ ctxs[written[i].ctx].made = "push") =>
                EndLineOfItsTrace(written[i])
          /\ written[i].call \in {"Printf", "Println"} =>
                HasPrefix(written[i].text,
                          debugPrefix \o IndentOf(written[i].ctx) \o ">> ")

\* PushTrace leaves the stack of the context it was given as it was.
ParentStackUnchanged ==
    [][\A c \in DOMAIN ctxs :
          (Len(ctxs') > Len(ctxs) /\ ctxs'[Len(ctxs')].made = "push"
           /\ ctxs'[Len(ctxs')].from = c)
          => traceStack(ctxs'[c], arrays') = traceStack(ctxs[c], arrays)]_vars

\* The end line of another trace is written only for a context whose
\* place in its backing array a later PushTrace has written too.
WrongEndLineOnlyOfSharedArray ==
    \A i \in DOMAIN written :
        (/\ written[i].call = "PopTrace"
         /\ ctxs[written[i].ctx].made = "push"
         /\ ~EndLineOfItsTrace(written[i]))
        => \E d \in DOMAIN ctxs :
              /\ d > written[i].ctx
              /\ ctxs[d].made = "push"
              /\ ctxs[d].arr = ctxs[written[i].ctx].arr
              /\ ctxs[d].len = ctxs[written[i].ctx].len

(***************************************************************************)
(* C29.  The temporary directory of an OCI inspection.                     *)
(***************************************************************************)

\* C29: no temporary directory outlives an OCI inspection: whatever a call
\* of Inspect returned, the chart or an error of fetchOCI (of the action
\* configuration as of the pull) or of a later step, the untar directory
\* that fetchOCI made has been removed.
C29_NoTemporaryDirectoryOutlivesInspect == tempDirs = {}

\* The directories that outlive their inspections are as many as the
\* calls that failed to initialise the action configuration.
DirectoriesLeftByInitFailures ==
    Cardinality(tempDirs) = Count(errors, "failed to init action config")

(***************************************************************************)
(* C30.  The order of the buckets.                                         *)
(***************************************************************************)

\* What another call of the same reconciler on slices equal to those
\* handed to this call may return, whatever the orders its maps are ranged
\* over in.
OutcomesOnEqualInputs ==
    IF callee = "DiffResources"
    THEN LET ga == resourcesByGroupVersionKindAndName(inA)
             gb == resourcesByGroupVersionKindAndName(inB)
         IN { DiffResourcesOutcome(ga, gb, oa, ob).out :
                oa \in IterOrders(ga.res), ob \in IterOrders(gb.res) }
    ELSE LET ga == resourceGroupsFromChart(inA)
             gb == resourceGroupsFromChart(inB)
         IN { resourcesDiffOutcome(ga, gb, oa, ob).out :
                oa \in IterOrders(ga.res), ob \in IterOrders(gb.res) }

\* C30: the reconciler is deterministic: a call that returned a diff and
\* any other call on equal inputs return Added, Removed and Unchanged with
\* the same elements in the same order, whatever the order the identity
\* maps are ranged over in.
C30_BucketsInTheSameOrder ==
    ReturnedDiff =>
        \A o \in OutcomesOnEqualInputs :
            ~o.ret.isNil =>
                /\ o.ret.Added = ret.Added
                /\ o.ret.Removed = ret.Removed
                /\ o.ret.Unchanged = ret.Unchanged

\* The same elements are returned in every bucket, and the same changes.
BucketsWithTheSameElements ==
    ReturnedDiff =>
        \A o \in OutcomesOnEqualInputs :
            ~o.ret.isNil =>
                /\ Range(o.ret.Added) = Range(ret.Added)
                /\ Range(o.ret.Removed) = Range(ret.Removed)
                /\ Range(o.ret.Unchanged) = Range(ret.Unchanged)
                /\ o.ret.Changed = ret.Changed

====
